---------------------------- MODULE Spec2Model ----------------------------
(***************************************************************************)
(* Model of the relay bot of promoguy-plus-mirror.                         *)
(*                                                                         *)
(*   src/normal-bot/normal_bot.py  Flask ingestion endpoint, attachment    *)
(*                                 download, embed construction and the    *)
(*                                 fan-out to the output channels          *)
(*   src/self-bot/self_bot.py      the source monitor that posts records   *)
(*                                 to the endpoint                         *)
(*                                                                         *)
(* Text is a sequence of one-character strings.  A JSON value is a record  *)
(* [t |-> tag, v |-> payload] so that values of different JSON types can   *)
(* sit in the same field.                                                  *)
(***************************************************************************)
EXTENDS Integers, Sequences, FiniteSets, TLC

(***************************************************************************)
(* Limits written as literals in send_to_discord_channel.                  *)
(***************************************************************************)
MaxText == 2000
TruncLen == 1997
MaxFiles == 10
MaxEmbeds == 10

(***************************************************************************)
(* Bounds of the model.                                                    *)
(***************************************************************************)
MaxDest == 2        \* length of TARGET_OUTPUT_CHANNEL_IDS is 0..MaxDest
OverLimit == 0      \* attachment / embed counts go up to limit + OverLimit
FailRefs == 1       \* the download of attachment i may fail for i <= FailRefs
MaxSendFail == 1    \* channel.send calls of one relay that may fail
MaxMessages == 3    \* messages the source monitor is handed

(***************************************************************************)
(* Characters.                                                             *)
(***************************************************************************)
Digit == {"0", "1", "2", "3", "4", "5", "6", "7", "8", "9"}
Letter == {"a", "b", "c", "d", "e", "f", "g", "h", "i", "j", "k", "l", "m",
           "n", "o", "p", "q", "r", "s", "t", "u", "v", "w", "x", "y", "z",
           "A", "B", "C", "D", "E", "F", "G", "H", "I", "J", "K", "L", "M",
           "N", "O", "P", "Q", "R", "S", "T", "U", "V", "W", "X", "Y", "Z"}
WordChar == Letter \cup Digit \cup {"_"}
Whitespace == {" ", "\n", "\t", "\r"}

DigitVal(c) ==
    CASE c = "0" -> 0 [] c = "1" -> 1 [] c = "2" -> 2 [] c = "3" -> 3
      [] c = "4" -> 4 [] c = "5" -> 5 [] c = "6" -> 6 [] c = "7" -> 7
      [] c = "8" -> 8 [] c = "9" -> 9

DigitChar(n) ==
    CASE n = 0 -> "0" [] n = 1 -> "1" [] n = 2 -> "2" [] n = 3 -> "3"
      [] n = 4 -> "4" [] n = 5 -> "5" [] n = 6 -> "6" [] n = 7 -> "7"
      [] n = 8 -> "8" [] n = 9 -> "9"

\* Two decimal digits, zero padded (%d, %I, %M of strftime).
TwoDigits(n) == <<DigitChar(n \div 10), DigitChar(n % 10)>>

Ceil(a, b) == (a + b - 1) \div b
Min(a, b) == IF a < b THEN a ELSE b
Max(a, b) == IF a > b THEN a ELSE b

\* s[from:] and s[:to] of Python, for 0 <= from, to.
Slice(s, from, to) ==
    SubSeq(s, from + 1, IF to < Len(s) THEN to ELSE Len(s))

\* str.strip() is the empty string.
IsBlank(s) == \A i \in 1..Len(s) : s[i] \in Whitespace

\* The largest q >= p - 1 with s[p..q] all in class: a greedy run.
RunEnd(s, p, class) ==
    CHOOSE q \in (p - 1)..Len(s) :
        /\ \A k \in p..q : s[k] \in class
        /\ (q = Len(s) \/ s[q + 1] \notin class)

CharAt(s, i) == IF i \in 1..Len(s) THEN s[i] ELSE "EOF"

(***************************************************************************)
(* JSON values and dict.get.                                               *)
(***************************************************************************)
JStr(chars) == [t |-> "str", v |-> chars]
JNull == [t |-> "null", v |-> <<>>]
JInt(n) == [t |-> "int", v |-> n]
JList(items) == [t |-> "list", v |-> items]
JDict(rec) == [t |-> "dict", v |-> rec]

\* d.get(key, default) on a Python dict held as a TLA+ record.
Get(d, key, default) == IF key \in DOMAIN d THEN d[key] ELSE default


(***************************************************************************)
(* Timestamp normalisation of receive_message (lines 110-114).             *)
(***************************************************************************)
RECURSIVE ReplaceZ(_)
\* timestamp.replace('Z', '+00:00')
ReplaceZ(s) ==
    IF s = <<>> THEN <<>>
    ELSE (IF Head(s) = "Z" THEN <<"+", "0", "0", ":", "0", "0">> ELSE <<Head(s)>>)
         \o ReplaceZ(Tail(s))

AllDigits(s, from, to) == \A k \in from..to : CharAt(s, k) \in Digit
Num2(s, p) == 10 * DigitVal(s[p]) + DigitVal(s[p + 1])
Num4(s, p) == 100 * Num2(s, p) + Num2(s, p + 2)

IsLeap(y) == (y % 4 = 0 /\ y % 100 # 0) \/ y % 400 = 0
DaysInMonth(y, m) ==
    IF m = 2 THEN (IF IsLeap(y) THEN 29 ELSE 28)
    ELSE IF m \in {4, 6, 9, 11} THEN 30 ELSE 31

\* The UTC-offset suffix forms accepted: none, or a sign and HH:MM.
IsoOffsetOk(s, p) ==
    \/ p = Len(s) + 1
    \/ /\ Len(s) = p + 5
       /\ s[p] \in {"+", "-"}
       /\ AllDigits(s, p + 1, p + 2) /\ s[p + 3] = ":" /\ AllDigits(s, p + 4, p + 5)
       /\ Num2(s, p + 4) < 60

\* The time-of-day forms HH, HH:MM, HH:MM:SS, HH:MM:SS.fff and
\* HH:MM:SS.ffffff starting at p; the position after the time, or 0.
IsoTimeEnd(s, p) ==
    IF ~AllDigits(s, p, p + 1) THEN 0
    ELSE IF CharAt(s, p + 2) # ":" THEN p + 2
    ELSE IF ~AllDigits(s, p + 3, p + 4) THEN 0
    ELSE IF CharAt(s, p + 5) # ":" THEN p + 5
    ELSE IF ~AllDigits(s, p + 6, p + 7) THEN 0
    ELSE IF CharAt(s, p + 8) # "." THEN p + 8
    ELSE IF AllDigits(s, p + 9, p + 14) THEN p + 15
    ELSE IF AllDigits(s, p + 9, p + 11) THEN p + 12
    ELSE 0

\* datetime.fromisoformat: [ok |-> FALSE] stands for ValueError.
fromisoformat(s) ==
    LET bad == [ok |-> FALSE, month |-> 0, day |-> 0, hour |-> 0, minute |-> 0]
        dateOk == /\ Len(s) >= 10
                  /\ AllDigits(s, 1, 4) /\ s[5] = "-"
                  /\ AllDigits(s, 6, 7) /\ s[8] = "-"
                  /\ AllDigits(s, 9, 10)
    IN  IF ~dateOk THEN bad
        ELSE LET y == Num4(s, 1)
                 m == Num2(s, 6)
                 d == Num2(s, 9)
             IN  IF ~(y >= 1 /\ m \in 1..12 /\ d \in 1..DaysInMonth(y, m)) THEN bad
                 ELSE IF Len(s) = 10
                      THEN [ok |-> TRUE, month |-> m, day |-> d, hour |-> 0, minute |-> 0]
                 ELSE LET e == IsoTimeEnd(s, 12)
                          hh == Num2(s, 12)
                          mm == IF e >= 17 THEN Num2(s, 15) ELSE 0
                          ss == IF e >= 20 THEN Num2(s, 18) ELSE 0
                      IN  IF e = 0 \/ ~IsoOffsetOk(s, e) THEN bad
                          ELSE IF ~(hh < 24 /\ mm < 60 /\ ss < 60) THEN bad
                          ELSE [ok |-> TRUE, month |-> m, day |-> d,
                                hour |-> hh, minute |-> mm]

MonthAbbr(m) ==
    CASE m = 1 -> <<"j", "a", "n">>  [] m = 2 -> <<"f", "e", "b">>
      [] m = 3 -> <<"m", "a", "r">>  [] m = 4 -> <<"a", "p", "r">>
      [] m = 5 -> <<"m", "a", "y">>  [] m = 6 -> <<"j", "u", "n">>
      [] m = 7 -> <<"j", "u", "l">>  [] m = 8 -> <<"a", "u", "g">>
      [] m = 9 -> <<"s", "e", "p">>  [] m = 10 -> <<"o", "c", "t">>
      [] m = 11 -> <<"n", "o", "v">> [] m = 12 -> <<"d", "e", "c">>

\* dt.strftime("%b: %d %I:%M%p").lower()
strftime(dt) ==
    LET h12 == IF dt.hour % 12 = 0 THEN 12 ELSE dt.hour % 12
    IN  MonthAbbr(dt.month) \o <<":", " ">> \o TwoDigits(dt.day) \o <<" ">>
        \o TwoDigits(h12) \o <<":">> \o TwoDigits(dt.minute)
        \o (IF dt.hour < 12 THEN <<"a", "m">> ELSE <<"p", "m">>)

\* str() of a JSON value that is not a string, as the f-string renders it.
PyStr(j) ==
    CASE j.t = "str" -> j.v
      [] j.t = "null" -> <<"N", "o", "n", "e">>
      [] j.t = "int" -> <<DigitChar(j.v % 10)>>
      [] OTHER -> <<"?">>

\* Mutation of formatted_time: a timestamp that does not parse is replaced
\* by the default 'N/A'.
formatted_time_default(timestamp) ==
    IF timestamp.t # "str" THEN <<"N", "/", "A">>
    ELSE LET dt == fromisoformat(ReplaceZ(timestamp.v))
         IN  IF dt.ok THEN strftime(dt) ELSE <<"N", "/", "A">>

\* formatted_time: the display string, or the raw value when the timestamp
\* is not a string (AttributeError on .replace) or does not parse (ValueError).
formatted_time(timestamp) ==
    IF timestamp.t # "str" THEN PyStr(timestamp)
    ELSE LET dt == fromisoformat(ReplaceZ(timestamp.v))
         IN  IF dt.ok THEN strftime(dt) ELSE timestamp.v

(***************************************************************************)
(* Custom emoji rewrite of receive_message (line 118):                     *)
(*     re.sub(r'<a?:(\w+):\d+>', r':\1:', content)                         *)
(***************************************************************************)
\* Mutation of EmojiMatch: the pattern lacks the optional 'a'.
EmojiMatchStaticOnly(s, i) ==
    LET no == [ok |-> FALSE, c1 |-> 0, c2 |-> 0, end |-> 0]
        c1 == i + 1
    IN  IF CharAt(s, i) # "<" \/ CharAt(s, c1) # ":" THEN no
        ELSE LET c2 == RunEnd(s, c1 + 1, WordChar) + 1
             IN  IF c2 = c1 + 1 \/ CharAt(s, c2) # ":" THEN no
                 ELSE LET end == RunEnd(s, c2 + 1, Digit) + 1
                      IN  IF end = c2 + 1 \/ CharAt(s, end) # ">" THEN no
                          ELSE [ok |-> TRUE, c1 |-> c1, c2 |-> c2, end |-> end]

\* The match of the pattern that starts at position i, if there is one:
\* c1 and c2 are the positions of the two colons, end that of '>'.
EmojiMatch(s, i) ==
    LET no == [ok |-> FALSE, c1 |-> 0, c2 |-> 0, end |-> 0]
        c1 == IF CharAt(s, i + 1) = "a" THEN i + 2 ELSE i + 1
    IN  IF CharAt(s, i) # "<" \/ CharAt(s, c1) # ":" THEN no
        ELSE LET c2 == RunEnd(s, c1 + 1, WordChar) + 1
             IN  IF c2 = c1 + 1 \/ CharAt(s, c2) # ":" THEN no
                 ELSE LET end == RunEnd(s, c2 + 1, Digit) + 1
                      IN  IF end = c2 + 1 \/ CharAt(s, end) # ">" THEN no
                          ELSE [ok |-> TRUE, c1 |-> c1, c2 |-> c2, end |-> end]

RECURSIVE EmojiSubFrom(_, _)
\* The leftmost, non-overlapping scan of re.sub from position i on.
EmojiSubFrom(s, i) ==
    IF i > Len(s) THEN <<>>
    ELSE LET m == EmojiMatch(s, i)
         IN  IF m.ok THEN SubSeq(s, m.c1, m.c2) \o EmojiSubFrom(s, m.end + 1)
             ELSE <<s[i]>> \o EmojiSubFrom(s, i + 1)

\* content_parsed.  A text with no '<' has no match and is returned as is.
content_parsed(content) ==
    IF \A i \in 1..Len(content) : content[i] # "<" THEN content
    ELSE EmojiSubFrom(content, 1)

\* The backquote character, which a TLA+ string literal cannot hold.
BackQuote == "bq"

\* formatted_message (line 121): backquote, '[', the time, '] #', the
\* channel name, backquote, newline, the parsed content.
formatted_message(time, channel_name, parsed) ==
    <<BackQuote, "[">> \o time \o <<"]", " ", "#">> \o channel_name
    \o <<BackQuote, "\n">> \o parsed

(***************************************************************************)
(* create_discord_embed (lines 42-94).  An embed spec is a Python dict     *)
(* held as a record whose fields are the keys present; the built embed is  *)
(* a record over the same keys.                                            *)
(***************************************************************************)
EmbedKeys == {"title", "description", "url", "color", "timestamp", "footer",
              "image", "thumbnail", "author", "fields"}

\* Whether setting property k from value v raises.
EmbedFieldRaises(k, v) ==
    CASE k = "color" -> v.t # "int"                            \* discord.Color(value)
      [] k = "timestamp" ->
            \/ v.t # "str"                                     \* .replace on a non-string
            \/ ~fromisoformat(ReplaceZ(v.v)).ok                \* ValueError
      [] k \in {"footer", "author"} -> v.t # "dict"           \* .get on a non-dict
      [] k \in {"image", "thumbnail"} ->
            v.t # "dict" \/ "url" \notin DOMAIN v.v            \* TypeError, KeyError
      [] k = "fields" ->
            \/ v.t # "list"
            \/ \E i \in 1..Len(v.v) : v.v[i].t # "dict"
      [] OTHER -> FALSE

ZeroWidthSpace == JStr(<<"zwsp">>)

\* The value property k of the built embed takes from v.
EmbedFieldValue(k, v) ==
    CASE k = "timestamp" -> fromisoformat(ReplaceZ(v.v))
      [] k = "footer" -> [text |-> Get(v.v, "text", JStr(<<>>)),
                          icon_url |-> Get(v.v, "icon_url", JNull)]
      [] k = "author" -> [name |-> Get(v.v, "name", JStr(<<>>)),
                          url |-> Get(v.v, "url", JNull),
                          icon_url |-> Get(v.v, "icon_url", JNull)]
      [] k \in {"image", "thumbnail"} -> [url |-> v.v.url]
      [] k = "fields" ->
            [i \in 1..Len(v.v) |->
                [name |-> Get(v.v[i].v, "name", ZeroWidthSpace),
                 value |-> Get(v.v[i].v, "value", ZeroWidthSpace),
                 inline |-> Get(v.v[i].v, "inline", FALSE)]]
      [] OTHER -> v

\* The text of a key, as a JSON string.
KeyText(k) ==
    CASE k = "title" -> <<"t", "i", "t", "l", "e">>
      [] k = "description" -> <<"d", "e", "s", "c", "r", "i", "p", "t", "i", "o", "n">>
      [] k = "url" -> <<"u", "r", "l">>
      [] k = "color" -> <<"c", "o", "l", "o", "r">>
      [] k = "timestamp" -> <<"t", "i", "m", "e", "s", "t", "a", "m", "p">>
      [] k = "footer" -> <<"f", "o", "o", "t", "e", "r">>
      [] k = "image" -> <<"i", "m", "a", "g", "e">>
      [] k = "thumbnail" -> <<"t", "h", "u", "m", "b", "n", "a", "i", "l">>
      [] k = "author" -> <<"a", "u", "t", "h", "o", "r">>
      [] k = "fields" -> <<"f", "i", "e", "l", "d", "s">>

\* k in embed_data for an embed_data that is a string (the key is a
\* substring of it) or a list (the key is one of its items).
HasKeyText(embed_data, k) ==
    IF embed_data.t = "str"
    THEN \E i \in 1..(Len(embed_data.v) - Len(KeyText(k)) + 1) :
            SubSeq(embed_data.v, i, i + Len(KeyText(k)) - 1) = KeyText(k)
    ELSE \E i \in 1..Len(embed_data.v) : embed_data.v[i] = JStr(KeyText(k))

\* [ok |-> FALSE] stands for the exception the caller catches.
create_discord_embed(embed_data) ==
    IF embed_data.t \notin {"dict", "str", "list"} THEN [ok |-> FALSE, embed |-> <<>>]
    ELSE IF embed_data.t \in {"str", "list"}
    THEN \* 'title' in embed_data is a substring or membership test
         IF \E k \in EmbedKeys : HasKeyText(embed_data, k)
         THEN [ok |-> FALSE, embed |-> <<>>]                \* embed_data['title']
         ELSE [ok |-> TRUE, embed |-> <<>>]
    ELSE LET keys == DOMAIN embed_data.v \cap EmbedKeys
         IN  IF \E k \in keys : EmbedFieldRaises(k, embed_data.v[k])
             THEN [ok |-> FALSE, embed |-> <<>>]
             ELSE [ok |-> TRUE,
                   embed |-> [k \in keys |-> EmbedFieldValue(k, embed_data.v[k])]]

\* Mutation of BuildEmbeds: the first spec whose construction raises ends
\* the loop.
BuildEmbedsStopAtFailure(embeds) ==
    LET bad == {i \in 1..Len(embeds) : ~create_discord_embed(embeds[i]).ok}
        n == IF bad = {} THEN Len(embeds)
             ELSE (CHOOSE i \in bad : \A j \in bad : i <= j) - 1
    IN  [i \in 1..n |-> create_discord_embed(embeds[i]).embed]

RECURSIVE BuildEmbeds(_)
\* The loop of send_to_discord_channels over the embed specs (lines 242-249):
\* a spec whose construction raises is left out.
BuildEmbeds(embeds) ==
    IF embeds = <<>> THEN <<>>
    ELSE LET r == create_discord_embed(Head(embeds))
         IN  (IF r.ok THEN <<r.embed>> ELSE <<>>) \o BuildEmbeds(Tail(embeds))

(***************************************************************************)
(* download_attachment (lines 157-177), up to the request.                 *)
(***************************************************************************)
\* url.split('/')[-1]
AfterLastSlash(url) ==
    LET at == {i \in 1..Len(url) : url[i] = "/"}
        last == IF at = {} THEN 0 ELSE CHOOSE i \in at : \A j \in at : j <= i
    IN  SubSeq(url, last + 1, Len(url))

\* s.split('?')[0]
BeforeQuery(s) ==
    LET at == {i \in 1..Len(s) : s[i] = "?"}
        first == IF at = {} THEN Len(s) + 1 ELSE CHOOSE i \in at : \A j \in at : i <= j
    IN  SubSeq(s, 1, first - 1)

\* The url and filename download_attachment works out for a reference;
\* ok is FALSE when this raises before any request is made (a reference that
\* is neither a dict nor a string, or that yields no string url).
AttachmentRequest(attachment) ==
    LET none == [ok |-> FALSE, url |-> <<>>, filename |-> JNull]
    IN  IF attachment.t = "dict"
        THEN LET url == Get(attachment.v, "url", JNull)
             IN  IF url.t # "str" THEN none
                 ELSE [ok |-> TRUE, url |-> url.v,
                       filename |-> Get(attachment.v, "filename",
                                        JStr(<<"a", "t", "t", "a", "c", "h", "m", "e", "n", "t">>))]
        ELSE IF attachment.t = "str"
        THEN [ok |-> TRUE, url |-> attachment.v,
              filename |-> JStr(BeforeQuery(AfterLastSlash(attachment.v)))]
        ELSE none

(***************************************************************************)
(* send_to_discord_channel (lines 180-224): the channel.send calls it      *)
(* makes, in order, when none of them raises.                              *)
(***************************************************************************)
\* Mutation of msg_to_send: the text is not cut.
msg_to_send_uncut(message) == message

\* msg_to_send (lines 184-186)
msg_to_send(message) ==
    IF Len(message) > MaxText
    THEN Slice(message, 0, TruncLen) \o <<".", ".", ".">>
    ELSE message

\* content=msg_to_send if msg_to_send.strip() else None
ContentOrNone(msg) == IF IsBlank(msg) THEN JNull ELSE JStr(msg)

\* range(start, stop, step) as the sequence of its values.
RangeBy(start, stop, step) ==
    [k \in 1..(IF stop > start THEN (stop - start + step - 1) \div step ELSE 0)
        |-> start + (k - 1) * step]

\* len(embeds[:10])
Min10(n) == IF n < MaxEmbeds THEN n ELSE MaxEmbeds

SendCall(content, files, embeds) ==
    [content |-> content, files |-> files, embeds |-> embeds]

\* Mutation of FileBatchStarts: the later batches start one file too far.
FileBatchStartsSkipOne(n) == RangeBy(MaxFiles + 1, n, MaxFiles)

\* range(10, len(files), 10) (line 210)
FileBatchStarts(n) == RangeBy(MaxFiles, n, MaxFiles)

\* Mutation of EmbedBatchStarts: the later batches start one embed too far.
EmbedBatchStartsSkipOne(n) == RangeBy(1, n, MaxEmbeds)

\* range(0, len(remaining_embeds), 10) (line 216)
EmbedBatchStarts(n) == RangeBy(0, n, MaxEmbeds)

\* Mutation of SendCalls: the batches of the files the first send cannot
\* take are sent ahead of it.
SendCallsOverflowFirst(message, files, embeds) ==
    LET msg == msg_to_send(message)
        fileStarts == FileBatchStarts(Len(files))
        moreFiles == [k \in 1..Len(fileStarts) |->
                        SendCall(JNull, Slice(files, fileStarts[k], fileStarts[k] + MaxFiles), <<>>)]
        embedStarts == EmbedBatchStarts(Len(embeds) - Min10(Len(embeds)))
        moreEmbeds == [k \in 1..Len(embedStarts) |->
                        SendCall(JNull, <<>>,
                                 Slice(embeds, MaxEmbeds + embedStarts[k],
                                       2 * MaxEmbeds + embedStarts[k]))]
    IN  moreFiles
        \o <<SendCall(ContentOrNone(msg), Slice(files, 0, MaxFiles), Slice(embeds, 0, MaxEmbeds))>>
        \o moreEmbeds

SendCalls(message, files, embeds) ==
    LET msg == msg_to_send(message)
        embeds_to_send == Slice(embeds, 0, MaxEmbeds)
        remaining_embeds == Slice(embeds, MaxEmbeds, Len(embeds))
        first == IF Len(files) <= MaxFiles
                 THEN <<SendCall(ContentOrNone(msg), files, embeds_to_send)>>
                 ELSE <<SendCall(ContentOrNone(msg), Slice(files, 0, MaxFiles), embeds_to_send)>>
        fileStarts == FileBatchStarts(Len(files))
        moreFiles == [k \in 1..Len(fileStarts) |->
                        SendCall(JNull, Slice(files, fileStarts[k], fileStarts[k] + MaxFiles), <<>>)]
        embedStarts == EmbedBatchStarts(Len(remaining_embeds))
        moreEmbeds == [k \in 1..Len(embedStarts) |->
                        SendCall(JNull, <<>>,
                                 Slice(remaining_embeds, embedStarts[k], embedStarts[k] + MaxEmbeds))]
    IN  IF files # <<>> \/ embeds # <<>>
        THEN first \o moreFiles \o moreEmbeds
        ELSE <<SendCall(JStr(msg), <<>>, <<>>)>>

(***************************************************************************)
(* The state.                                                              *)
(***************************************************************************)
VARIABLES
    TARGET_OUTPUT_CHANNEL_IDS,  \* the configured output channel ids, in order
    channels,        \* the ids client.get_channel resolves to a channel
    hpc,             \* receive_message: "idle", "respond", "returned", "raised"
    data,            \* request.json of the request being handled
    response,        \* what receive_message returned
    tpc,             \* the coroutine send_to_discord_channels on client.loop:
                     \* "none", "ready", "fetch", "send", "done"
    args,            \* its arguments (message, attachments, embeds)
    att_i,           \* index of the attachment whose download is awaited
    files_data,      \* the discord.File objects of the downloads so far
    discord_embeds,  \* the built embeds
    chan_i,          \* index in TARGET_OUTPUT_CHANNEL_IDS of the channel sent to
    channel_files,   \* the discord.File objects made for that channel
    call_k,          \* index of the awaited channel.send of that channel
    buffers,         \* the BytesIO objects: downloaded bytes and read position
    fetchLog,        \* every session.get made, with its outcome
    resolveLog,      \* every client.get_channel made, with its outcome
    sendLog,         \* every channel.send made, with what it carried
    silent,          \* the peer of the awaited network call never responds
    relays,          \* two relays in flight on client.loop: for each, the
                     \* state of its coroutine send_to_discord_channels
    pairLog,         \* every channel.send the two relays made, in order
    target_channel_ids,  \* self_bot.py: the monitored channel ids
    mpc,             \* self_bot.py: "init", "running", "exited"
    events,          \* every message handed to on_message, with how it ended
    forwardLog       \* every requests.post on_message made, with its outcome

soloVars == <<hpc, data, response, tpc, args,
              att_i, files_data, discord_embeds, chan_i, channel_files, call_k,
              buffers, fetchLog, resolveLog, sendLog, silent>>

pairVars == <<relays, pairLog>>

monitorVars == <<target_channel_ids, mpc, events, forwardLog>>

vars == <<TARGET_OUTPUT_CHANNEL_IDS, channels, soloVars, pairVars, monitorVars>>

taskVars == <<tpc, args, att_i, files_data, discord_embeds, chan_i,
              channel_files, call_k, buffers, fetchLog, resolveLog, sendLog,
              silent>>

Nothing == [t |-> "nothing", v |-> <<>>]
NoArgs == [message |-> <<>>, attachments |-> JNull, embeds |-> JNull]

\* The two records ingested one after the other, by their order of ingestion.
Relays == {1, 2}
\* A coroutine that has not been scheduled.
NoRelay == [pc |-> "none", args |-> NoArgs, att_i |-> 0, files_data |-> <<>>,
            discord_embeds |-> <<>>, chan_i |-> 0, call_k |-> 0]

(***************************************************************************)
(* The requests the model posts to /receive_message.                       *)
(***************************************************************************)
IsoZ == <<"2", "0", "2", "4", "-", "0", "1", "-", "0", "5", "T",
          "1", "3", ":", "4", "5", ":", "0", "0", "Z">>
\* The form self_bot.py sends: strftime('%Y-%m-%d %H:%M:%S').
SelfBotTime == <<"2", "0", "2", "5", "-", "1", "2", "-", "3", "1", " ",
                 "0", "0", ":", "0", "7", ":", "5", "9">>
NotADate == <<"n", "o", "t", "-", "a", "-", "d", "a", "t", "e">>
\* The shape of a date with a month that does not exist, and a text with 'Z'.
NoSuchMonth == <<"2", "0", "2", "4", "-", "1", "3", "-", "0", "5", "T",
                 "1", "3", ":", "4", "5", ":", "0", "0", "Z">>
ZText == <<"Z", "9">>

ChannelName == <<"c">>
ShortText == <<"h", "i">>
EmojiText == <<"<", "a", ":", "w", "a", "v", "e", ":", "1", "2", "3", ">",
               " ", "<", ":", "o", "k", ":", "7", ">", "<", "x", ">">>

\* The example of the animated emoji, between other characters.
WaveText == <<"x", "<", "a", ":", "w", "a", "v", "e", ":", "1", "2", "3", "4", "5",
              "6", "7", "8", "9", "0", "1", "2", "3", "4", "5", ">", "y">>
\* Texts that come close to the pattern: a tag cut short by the start of
\* another, a flag that is not 'a', no id, no name, no '>', a name with ':'.
NearEmojiText == <<"<", ":", "a", ":", "1", "<", ":", "b", "_", "2", ":", "3", "4", ">",
                   "<", "b", ":", "c", ":", "1", ">", "<", "a", ":", "b", ":", ">",
                   "<", ":", ":", "1", ">", "<", ":", "a", ":", "b", ":", "1", ">",
                   "<", "a", ":", "b", ":", "1">>

\* A text of n characters none of which is '.', '<' or whitespace.
Filler(n) == [i \in 1..n |-> IF i % 3 = 0 THEN "x" ELSE IF i % 3 = 1 THEN "y" ELSE "z"]

\* Length of the header line that precedes the content in the relay text.
HeaderLen == Len(formatted_message(formatted_time(JStr(IsoZ)), ChannelName, <<>>))

\* Content lengths that make the relay text short, exactly MaxText, one
\* more than MaxText, and 4500 characters long.
ContentLens == {MaxText - HeaderLen, MaxText + 1 - HeaderLen, 4500 - HeaderLen}

AttachmentUrl(i) == <<"h", ":", "/", "/", "s", "/", "f">> \o TwoDigits(i) \o <<"?", "k", "=", "1">>
AttachmentName(i) == <<"n">> \o TwoDigits(i)
AttachmentRef(i) ==
    JDict([url |-> JStr(AttachmentUrl(i)), filename |-> JStr(AttachmentName(i)),
           size |-> JInt(i), content_type |-> JStr(<<"i", "m", "g">>)])
AttachmentRefs(n) == [i \in 1..n |-> AttachmentRef(i)]

EmbedSpec(i) == JDict([title |-> JStr(<<"e">> \o TwoDigits(i))])
EmbedSpecs(n) == [i \in 1..n |-> EmbedSpec(i)]

\* An embed spec with every property set.
FullEmbedSpec ==
    JDict([title |-> JStr(<<"t">>), description |-> JStr(<<"d">>),
           url |-> JStr(<<"u">>), color |-> JInt(255), timestamp |-> JStr(IsoZ),
           footer |-> JDict([text |-> JStr(<<"f">>)]),
           image |-> JDict([url |-> JStr(<<"i">>)]),
           thumbnail |-> JDict([url |-> JStr(<<"i">>)]),
           author |-> JDict([name |-> JStr(<<"a">>)]),
           fields |-> JList(<<JDict([name |-> JStr(<<"n">>)]),
                              JDict([value |-> JStr(<<"v">>), inline |-> TRUE])>>)])
\* Specs whose construction raises.
BadColorSpec == JDict([title |-> JStr(<<"b">>), color |-> JStr(<<"r", "e", "d">>)])
BadTimeSpec == JDict([title |-> JStr(<<"b">>), timestamp |-> JStr(NotADate)])

Record(timestamp, content, attachments, embeds) ==
    JDict([timestamp |-> timestamp, channel_id |-> JInt(7),
           channel_name |-> JStr(ChannelName), author |-> JStr(<<"u">>),
           content |-> content, attachments |-> attachments, embeds |-> embeds])

\* Attachment and embed counts around a per-message limit.
Counts(limit) == {0, 1} \cup (limit..(limit + OverLimit)) \cup {2 * limit + 1}

\* Records that vary the text, with at most one attachment and one embed.
TextRecords ==
    {Record(JStr(IsoZ), JStr(Filler(len)), JList(AttachmentRefs(n)), JList(EmbedSpecs(e))) :
        len \in ContentLens, n \in {0, 1}, e \in {0, 1}}

\* Records that vary the number of attachments, or the number of embeds, and
\* one with both just over the limit.
CountRecords ==
    {Record(JStr(IsoZ), JStr(ShortText), JList(AttachmentRefs(n)), JList(<<>>)) :
        n \in Counts(MaxFiles)}
    \cup
    {Record(JStr(IsoZ), JStr(ShortText), JList(<<>>), JList(EmbedSpecs(e))) :
        e \in Counts(MaxEmbeds)}
    \cup
    {Record(JStr(IsoZ), JStr(ShortText), JList(AttachmentRefs(MaxFiles + 1)),
            JList(EmbedSpecs(MaxEmbeds + 1)))}

\* A long text with more attachments and embeds than one message takes.
LargeRecords ==
    {Record(JStr(IsoZ), JStr(Filler(4500 - HeaderLen)),
            JList(AttachmentRefs(MaxFiles + 2)), JList(EmbedSpecs(MaxEmbeds + 5)))}

\* Records that vary the other fields.
OtherRecords ==
    {Record(JStr(SelfBotTime), JStr(ShortText), JList(<<>>), JList(<<>>)),
     Record(JStr(NotADate), JStr(ShortText), JList(<<>>), JList(<<>>)),
     Record(JNull, JStr(ShortText), JList(<<>>), JList(<<>>)),
     Record(JStr(NoSuchMonth), JStr(ShortText), JList(AttachmentRefs(1)), JList(<<>>)),
     Record(JStr(ZText), JStr(ShortText), JList(<<>>), JList(<<>>)),
     Record(JStr(<<>>), JStr(ShortText), JList(<<>>), JList(<<>>)),
     Record(JStr(IsoZ), JStr(<<>>), JList(<<>>), JList(<<>>)),
     Record(JStr(IsoZ), JStr(<<>>), JList(AttachmentRefs(1)), JList(<<>>)),
     Record(JStr(IsoZ), JStr(<<" ", " ">>), JList(<<>>), JList(EmbedSpecs(1))),
     Record(JStr(IsoZ), JStr(EmojiText), JList(<<>>), JList(<<>>)),
     Record(JStr(IsoZ), JStr(WaveText), JList(<<>>), JList(EmbedSpecs(1))),
     Record(JStr(IsoZ), JStr(NearEmojiText), JList(<<>>), JList(<<>>)),
     Record(JStr(IsoZ), JStr(ShortText), JNull, JNull),
     \* bare URL strings, a reference without url, a reference that is a number
     Record(JStr(IsoZ), JStr(ShortText),
            JList(<<JStr(AttachmentUrl(1)), JDict([filename |-> JStr(AttachmentName(2))]),
                    JInt(3), JDict([url |-> JStr(AttachmentUrl(4))])>>),
            JList(<<>>)),
     \* embed specs whose construction raises, among ones that build
     Record(JStr(IsoZ), JStr(ShortText), JList(<<>>),
            JList(<<BadColorSpec, EmbedSpec(1), FullEmbedSpec, BadTimeSpec, EmbedSpec(2)>>)),
     \* embed specs that are strings, one of which holds the name of a key
     Record(JStr(IsoZ), JStr(ShortText), JList(AttachmentRefs(1)),
            JList(<<JStr(<<"x">>), JStr(<<"a", "u", "r", "l", "s">>), EmbedSpec(3)>>)),
     \* a body with no field at all
     JDict([author |-> JStr(<<"u">>)])}

\* Bodies receive_message cannot process.
MalformedRecords ==
    {JNull,                                                      \* no JSON object
     JList(<<>>),
     Record(JStr(IsoZ), JNull, JList(<<>>), JList(<<>>)),       \* content null
     Record(JStr(IsoZ), JInt(5), JList(AttachmentRefs(1)), JList(<<>>)),
     Record(JStr(IsoZ), JStr(ShortText), JInt(5), JList(<<>>)),       \* attachments a number
     Record(JStr(IsoZ), JStr(ShortText), JList(AttachmentRefs(1)), JInt(5)),
     Record(JStr(IsoZ), JStr(ShortText), JList(AttachmentRefs(1)),
            JList(<<EmbedSpec(1), JInt(5)>>)),                     \* an embed that is a number
     Record(JStr(IsoZ), JStr(ShortText), JList(AttachmentRefs(1)),
            JList(<<JStr(<<"a", "t", "i", "t", "l", "e">>)>>))}     \* embed["title"] of a string

Requests == TextRecords \cup CountRecords \cup LargeRecords \cup OtherRecords
            \cup MalformedRecords

(***************************************************************************)
(* receive_message (lines 96-154).                                         *)
(***************************************************************************)
\* Python truth value of a JSON value.
Truthy(j) ==
    CASE j.t \in {"str", "list"} -> Len(j.v) > 0
      [] j.t = "int" -> j.v # 0
      [] j.t = "dict" -> DOMAIN j.v # {}
      [] OTHER -> FALSE

\* The exception lines 100-141 raise on body d, or "none".
HandlerRaises(d) ==
    IF d.t # "dict" THEN "AttributeError"                 \* data.get
    ELSE LET content == Get(d.v, "content", JStr(<<>>))
             attachments == Get(d.v, "attachments", JList(<<>>))
             embeds == Get(d.v, "embeds", JList(<<>>))
         IN  IF content.t # "str" THEN "TypeError"        \* re.sub
             ELSE IF Truthy(attachments) /\ attachments.t # "list"
                  THEN "TypeError"                        \* len, for ... in
             ELSE IF Truthy(embeds) /\ embeds.t # "list" THEN "TypeError"
             ELSE IF /\ Truthy(embeds)
                     /\ \E i \in 1..Len(embeds.v) :
                           \/ embeds.v[i].t \notin {"dict", "str", "list"}
                           \/ /\ embeds.v[i].t \in {"str", "list"}
                              /\ HasKeyText(embeds.v[i], "title")
                  THEN "TypeError"             \* 'title' in embed, embed["title"]
             ELSE "none"

\* The message receive_message composes from body d (lines 103-121).
MessageOf(d) ==
    formatted_message(formatted_time(Get(d.v, "timestamp", JStr(<<"N", "/", "A">>))),
                      PyStr(Get(d.v, "channel_name",
                                JStr(<<"U", "n", "k", "n", "o", "w", "n">>))),
                      content_parsed(Get(d.v, "content", JStr(<<>>)).v))

\* Mutation of Catches: the clause names one exception class.
CatchesValueErrorOnly(exc) == exc = "ValueError"

\* except Exception (line 152): whether exception exc is caught.
Catches(exc) == TRUE

SuccessAck == [status |-> "success", message |-> "Message received", code |-> 200]
ErrorAck(exc) == [status |-> "error", message |-> exc, code |-> 500]

\* asyncio.run_coroutine_threadsafe(send_to_discord_channels(...), client.loop)
\* (lines 145-148): the coroutine is queued on the loop with its arguments.
run_coroutine_threadsafe(message, attachments, embeds) ==
    /\ tpc' = "ready"
    /\ args' = [message |-> message, attachments |-> attachments, embeds |-> embeds]

\* Mutation of HandOffReturned: the handler waits for the result of the
\* future.
HandOffWaitsForResult == tpc \in {"none", "done"}

\* Whether the call of line 145 has returned, so that line 150 is reached:
\* it returns the future at once.
HandOffReturned == TRUE

\* Lines 100-148: the body is read and normalised and the relay scheduled.
ReceiveMessage(d) ==
    /\ hpc = "idle"
    /\ data' = d
    /\ LET exc == HandlerRaises(d)
       IN  IF exc # "none"
           THEN /\ IF Catches(exc)
                   THEN hpc' = "returned" /\ response' = ErrorAck(exc)
                   ELSE hpc' = "raised" /\ response' = Nothing
                /\ UNCHANGED <<tpc, args>>
           ELSE /\ hpc' = "respond"
                /\ response' = Nothing
                /\ IF TARGET_OUTPUT_CHANNEL_IDS # <<>>
                   THEN run_coroutine_threadsafe(MessageOf(d),
                                                 Get(d.v, "attachments", JList(<<>>)),
                                                 Get(d.v, "embeds", JList(<<>>)))
                   ELSE UNCHANGED <<tpc, args>>
    /\ UNCHANGED <<TARGET_OUTPUT_CHANNEL_IDS, channels, att_i, files_data,
                   discord_embeds, chan_i, channel_files, call_k, buffers,
                   fetchLog, resolveLog, sendLog, silent>>
    /\ UNCHANGED <<pairVars, monitorVars>>

\* Line 150: return jsonify({'status': 'success', ...}), 200
Respond ==
    /\ hpc = "respond"
    /\ HandOffReturned
    /\ hpc' = "returned"
    /\ response' = SuccessAck
    /\ UNCHANGED <<TARGET_OUTPUT_CHANNEL_IDS, channels, data>>
    /\ UNCHANGED taskVars
    /\ UNCHANGED <<pairVars, monitorVars>>

(***************************************************************************)
(* send_to_discord_channels (lines 227-267), run by client.loop from one   *)
(* await to the next.                                                      *)
(***************************************************************************)
\* The attachments the download loop iterates (if attachments: for ...).
AttachmentList == IF Truthy(args.attachments) THEN args.attachments.v ELSE <<>>
EmbedList == IF Truthy(args.embeds) THEN args.embeds.v ELSE <<>>

\* Mutation of NextRequest: an attachment is requested a second time before
\* the loop moves on.
NextRequestTwice(i) ==
    LET js == {j \in (i + 1)..Len(AttachmentList) : AttachmentRequest(AttachmentList[j]).ok}
    IN  IF i > 0 /\ Cardinality({n \in 1..Len(fetchLog) : fetchLog[n].ref = i}) = 0 THEN i
        ELSE IF js = {} THEN 0 ELSE CHOOSE j \in js : \A m \in js : j <= m

\* The next attachment after index i for which download_attachment makes a
\* request; 0 when there is none.  The ones in between raise before any
\* request and are skipped.
NextRequest(i) ==
    LET js == {j \in (i + 1)..Len(AttachmentList) : AttachmentRequest(AttachmentList[j]).ok}
    IN  IF js = {} THEN 0 ELSE CHOOSE j \in js : \A m \in js : j <= m

\* Mutation of NextChannel: a channel that is not found ends the loop.
NextChannelStopAtMissing(c) ==
    IF c + 1 \in 1..Len(TARGET_OUTPUT_CHANNEL_IDS)
       /\ TARGET_OUTPUT_CHANNEL_IDS[c + 1] \in channels
    THEN c + 1 ELSE 0

\* The next channel after index c that client.get_channel finds; 0 when
\* there is none.
NextChannel(c) ==
    LET js == {j \in (c + 1)..Len(TARGET_OUTPUT_CHANNEL_IDS) :
                  TARGET_OUTPUT_CHANNEL_IDS[j] \in channels}
    IN  IF js = {} THEN 0 ELSE CHOOSE j \in js : \A m \in js : j <= m

\* The get_channel calls made from the channel after c up to the one found.
Resolutions(c) ==
    LET n == NextChannel(c)
        last == IF n = 0 THEN Len(TARGET_OUTPUT_CHANNEL_IDS) ELSE n
    IN  [k \in 1..(last - c) |-> [chan |-> c + k, found |-> (c + k = n)]]

\* Lines 260-265: a new discord.File on the same fp for each downloaded file.
ChannelFiles(files) == [k \in 1..Len(files) |-> [fp |-> files[k].fp, filename |-> files[k].filename]]

\* Mutation of SeekZero: the read positions are left where the sends to
\* the channel before left them.
SeekZeroForgotten(bufs, files) == bufs

\* file.fp.seek(0) for each downloaded file (line 264).
SeekZero(bufs, files) ==
    [b \in 1..Len(bufs) |->
        IF \E k \in 1..Len(files) : files[k].fp = b
        THEN [bufs[b] EXCEPT !.pos = 0] ELSE bufs[b]]

\* Lines 252-267 from the channel after index c, up to the await of the
\* first channel.send of the next channel found, or to the end of the loop.
GoToChannel(c, files, bufs) ==
    LET n == NextChannel(c)
    IN  /\ resolveLog' = resolveLog \o Resolutions(c)
        /\ chan_i' = n
        /\ IF n = 0
           THEN /\ tpc' = "done"
                /\ channel_files' = <<>>
                /\ call_k' = 0
                /\ buffers' = bufs
           ELSE /\ tpc' = "send"
                /\ channel_files' = ChannelFiles(files)
                /\ call_k' = 1
                /\ buffers' = SeekZero(bufs, files)

\* Lines 241-267 once the downloads are over: the embeds are built and the
\* channel loop is entered.
AfterDownloads(files, bufs) ==
    /\ discord_embeds' = BuildEmbeds(EmbedList)
    /\ GoToChannel(0, files, bufs)

SendFailures == Cardinality({n \in 1..Len(sendLog) : ~sendLog[n].ok})

\* Whether the awaited network call is one the model lets fail.
AwaitedMayFail ==
    \/ tpc = "fetch" /\ att_i <= FailRefs
    \/ tpc = "send" /\ SendFailures < MaxSendFail

\* A network call is begun: its peer will respond, or never will.
PeerChoice == silent' \in (IF AwaitedMayFail' THEN BOOLEAN ELSE {FALSE})

\* Mutation of FetchTimeout: the request waits for its response without
\* limit.
FetchWithoutTimeout == FALSE

\* Whether session.get gives up on a peer that does not respond: the
\* aiohttp.ClientSession() of line 235 is made with the default timeout of
\* aiohttp, 5 minutes in total for a request, and asyncio.TimeoutError is
\* raised into download_attachment.
FetchTimeout == TRUE

\* Mutation of SendTimeout: the send waits for its response without limit.
SendWithoutTimeout == FALSE

\* Whether channel.send gives up on a peer that does not respond: the
\* session discord.Client makes its HTTP requests on has the same default
\* timeout, and the error is raised into send_to_discord_channel.
SendTimeout == TRUE

\* The loop starts the coroutine: lines 229-237 up to the first request.
Begin ==
    /\ tpc = "ready"
    /\ IF TARGET_OUTPUT_CHANNEL_IDS = <<>>
       THEN /\ tpc' = "done"
            /\ UNCHANGED <<att_i, discord_embeds, chan_i, channel_files, call_k,
                           buffers, resolveLog>>
       ELSE IF NextRequest(0) # 0
       THEN /\ tpc' = "fetch"
            /\ att_i' = NextRequest(0)
            /\ UNCHANGED <<discord_embeds, chan_i, channel_files, call_k,
                           buffers, resolveLog>>
       ELSE /\ att_i' = 0
            /\ AfterDownloads(<<>>, buffers)
    /\ UNCHANGED <<TARGET_OUTPUT_CHANNEL_IDS, channels, hpc, data, response,
                   args, files_data, fetchLog, sendLog>>
    /\ PeerChoice
    /\ UNCHANGED <<pairVars, monitorVars>>

\* The bytes the server returns for the request numbered n of reference i.
Bytes(i, n) == <<"b", i, n>>

\* Mutation of AfterDownload: a download that failed ends the loop.
AfterDownloadStopOnFailure(outcome, i) ==
    IF outcome = "200" THEN NextRequest(i) ELSE 0

\* Mutation of AfterDownload: the relay goes on to the sends as soon as the
\* first download is over.
AfterDownloadSendEarly(outcome, i) == 0

\* Lines 236-239: whatever download_attachment returned for attachment i,
\* a file or None, the for loop goes on to the next attachment.
AfterDownload(outcome, i) == NextRequest(i)

\* The request of download_attachment completes (lines 168-177) with status
\* 200, with another status, or with an exception; the download loop goes on
\* (lines 236-239).
DownloadDone(outcome) ==
    /\ tpc = "fetch"
    /\ outcome # "200" => att_i <= FailRefs
    /\ IF outcome = "timeout" THEN silent /\ FetchTimeout ELSE ~silent
    /\ LET req == AttachmentRequest(AttachmentList[att_i])
           n == Len(fetchLog) + 1
           file == [fp |-> Len(buffers) + 1, filename |-> req.filename]
           files == IF outcome = "200" THEN Append(files_data, file) ELSE files_data
           bufs == IF outcome = "200"
                   THEN Append(buffers, [ref |-> att_i, fetch |-> n,
                                         data |-> Bytes(att_i, n), pos |-> 0,
                                         closed |-> FALSE])
                   ELSE buffers
       IN  /\ fetchLog' = Append(fetchLog, [ref |-> att_i, url |-> req.url,
                                            outcome |-> outcome])
           /\ files_data' = files
           /\ IF AfterDownload(outcome, att_i) # 0
              THEN /\ att_i' = AfterDownload(outcome, att_i)
                   /\ buffers' = bufs
                   /\ UNCHANGED <<tpc, discord_embeds, chan_i, channel_files,
                                  call_k, resolveLog>>
              ELSE /\ att_i' = 0
                   /\ AfterDownloads(files, bufs)
    /\ UNCHANGED <<TARGET_OUTPUT_CHANNEL_IDS, channels, hpc, data, response,
                   args, sendLog>>
    /\ PeerChoice
    /\ UNCHANGED <<pairVars, monitorVars>>

\* What channel.send reads from a file: the bytes from the read position on.
FileSent(f) ==
    [filename |-> f.filename, fp |-> f.fp,
     bytes |-> IF buffers[f.fp].closed THEN <<>>
               ELSE SubSeq(buffers[f.fp].data, buffers[f.fp].pos + 1,
                           Len(buffers[f.fp].data))]

\* The read positions after a channel.send that read its files to the end.
ReadToEnd(bufs, files) ==
    [b \in 1..Len(bufs) |->
        IF \E k \in 1..Len(files) : files[k].fp = b
        THEN [bufs[b] EXCEPT !.pos = Len(bufs[b].data)] ELSE bufs[b]]

\* The read positions after a channel.send that raised part-way: it had read
\* one more byte of each of its files.
ReadPart(bufs, files) ==
    [b \in 1..Len(bufs) |->
        IF \E k \in 1..Len(files) : files[k].fp = b
        THEN [bufs[b] EXCEPT !.pos = Min(bufs[b].pos + 1, Len(bufs[b].data))]
        ELSE bufs[b]]

\* Whether a discord.File closes its fp when it is closed: not one built on
\* a file object passed in (BytesIO(data) at line 171, file.fp at line 265),
\* only one that opened its file from a path.
OwnsFp == FALSE

\* channel.send closes the discord.File objects it was given, whether it
\* returns or raises.
FileClose(bufs, files) ==
    [b \in 1..Len(bufs) |->
        IF \E k \in 1..Len(files) : files[k].fp = b
        THEN [bufs[b] EXCEPT !.closed = bufs[b].closed \/ OwnsFp]
        ELSE bufs[b]]

\* How much of its files a channel.send has read when it returns or raises.
ReadAmounts == {"none", "part", "all"}

\* What follows the channel.send numbered k of the current channel, of n:
\* the next call of send_to_discord_channel, or, after the last one and after
\* one that raised (the except clause of line 223 ends the function), the
\* next channel.
AfterSend(ok, k, n, bufs) ==
    IF ok /\ k < n
    THEN /\ call_k' = k + 1
         /\ buffers' = bufs
         /\ UNCHANGED <<tpc, chan_i, channel_files, resolveLog>>
    ELSE GoToChannel(chan_i, files_data, bufs)

\* An awaited channel.send completes or raises.
SendDone(ok, read) ==
    /\ tpc = "send"
    /\ ~ok => SendFailures < MaxSendFail
    /\ ok => read = "all"
    /\ silent => (~ok /\ SendTimeout)
    /\ LET calls == SendCalls(args.message, channel_files, discord_embeds)
           call == calls[call_k]
           after == CASE read = "all" -> ReadToEnd(buffers, call.files)
                      [] read = "part" -> ReadPart(buffers, call.files)
                      [] OTHER -> buffers
           bufs == FileClose(after, call.files)
       IN  /\ sendLog' = Append(sendLog,
                   [chan |-> chan_i, k |-> call_k, content |-> call.content,
                    files |-> [j \in 1..Len(call.files) |-> FileSent(call.files[j])],
                    embeds |-> call.embeds, ok |-> ok])
           /\ AfterSend(ok, call_k, Len(calls), bufs)
    /\ UNCHANGED <<TARGET_OUTPUT_CHANNEL_IDS, channels, hpc, data, response,
                   args, att_i, files_data, discord_embeds, fetchLog>>
    /\ PeerChoice
    /\ UNCHANGED <<pairVars, monitorVars>>

(***************************************************************************)
(* The system: one request is posted; the Flask thread and client.loop     *)
(* run concurrently.                                                       *)
(***************************************************************************)
ChannelId(j) == 100 + j

Init ==
    /\ \E d \in 0..MaxDest :
          TARGET_OUTPUT_CHANNEL_IDS = [j \in 1..d |-> ChannelId(j)]
    /\ channels \in SUBSET {ChannelId(j) : j \in 1..Len(TARGET_OUTPUT_CHANNEL_IDS)}
    /\ hpc = "idle"
    /\ data = Nothing
    /\ response = Nothing
    /\ tpc = "none"
    /\ args = NoArgs
    /\ att_i = 0
    /\ files_data = <<>>
    /\ discord_embeds = <<>>
    /\ chan_i = 0
    /\ channel_files = <<>>
    /\ call_k = 0
    /\ buffers = <<>>
    /\ fetchLog = <<>>
    /\ resolveLog = <<>>
    /\ sendLog = <<>>
    /\ silent = FALSE
    /\ relays = [r \in Relays |-> NoRelay]
    /\ pairLog = <<>>
    /\ target_channel_ids = {}
    /\ mpc = "init"
    /\ events = <<>>
    /\ forwardLog = <<>>

Next ==
    \/ \E d \in Requests : ReceiveMessage(d)
    \/ Respond
    \/ Begin
    \/ \E outcome \in {"200", "404", "error", "timeout"} : DownloadDone(outcome)
    \/ \E ok \in BOOLEAN, read \in ReadAmounts : SendDone(ok, read)

Spec == Init /\ [][Next]_vars

\* client.loop runs a coroutine that is ready: the one scheduled, and the one
\* whose awaited call has ended, by a response or by its timeout.
LoopStep ==
    \/ Begin
    \/ \E outcome \in {"200", "404", "error", "timeout"} : DownloadDone(outcome)
    \/ \E ok \in BOOLEAN, read \in ReadAmounts : SendDone(ok, read)

\* The requests of the specification that is checked for termination: a
\* relay of two attachments and of more embeds than one send takes, one
\* of text alone, and a body that is rejected.
LiveRequests ==
    {Record(JStr(IsoZ), JStr(ShortText), JList(AttachmentRefs(2)),
            JList(EmbedSpecs(MaxEmbeds + 1))),
     Record(JStr(IsoZ), JStr(ShortText), JList(<<>>), JList(<<>>)),
     JNull}

LiveNext ==
    \/ \E d \in LiveRequests : ReceiveMessage(d)
    \/ Respond
    \/ LoopStep

LiveSpec == Init /\ [][LiveNext]_vars /\ WF_vars(LoopStep)

(***************************************************************************)
(* Two relays in flight.  receive_message handles two requests one after   *)
(* the other; each hands a coroutine send_to_discord_channels of its own   *)
(* to client.loop (lines 145-148), and the loop runs the two coroutines    *)
(* from one await to the next, in the order in which their awaited calls   *)
(* end.  An awaited call ends here by a response or by raising.            *)
(***************************************************************************)
\* The records of the two requests: a text with one attachment to fetch, and
\* a text with more embeds than one send takes.
PairRequests ==
    {Record(JStr(IsoZ), JStr(ShortText), JList(AttachmentRefs(1)), JList(<<>>)),
     Record(JStr(IsoZ), JStr(ShortText), JList(<<>>), JList(EmbedSpecs(MaxEmbeds + 1)))}

\* The list a relay iterates for an argument (if attachments:, if embeds:).
ListOf(j) == IF Truthy(j) THEN j.v ELSE <<>>

\* NextRequest for the attachments of a relay: the next one after index i
\* for which download_attachment makes a request; 0 when there is none.
RequestAfter(attachments, i) ==
    LET js == {j \in (i + 1)..Len(attachments) : AttachmentRequest(attachments[j]).ok}
    IN  IF js = {} THEN 0 ELSE CHOOSE j \in js : \A m \in js : j <= m

\* Lines 100-148 for the request numbered r: the body is read and normalised
\* and the relay scheduled.  The handler returns before the next request is
\* handled.
PairReceive(r, d) ==
    /\ relays[r].pc = "none"
    /\ \A q \in Relays : q < r => relays[q].pc # "none"
    /\ relays' = [relays EXCEPT ![r] =
          IF HandlerRaises(d) = "none" /\ TARGET_OUTPUT_CHANNEL_IDS # <<>>
          THEN [NoRelay EXCEPT !.pc = "ready",
                               !.args = [message |-> MessageOf(d),
                                         attachments |-> Get(d.v, "attachments", JList(<<>>)),
                                         embeds |-> Get(d.v, "embeds", JList(<<>>))]]
          ELSE [NoRelay EXCEPT !.pc = "unscheduled"]]
    /\ UNCHANGED <<TARGET_OUTPUT_CHANNEL_IDS, channels, soloVars, pairLog, monitorVars>>

\* Mutation of StartedInOrder: the loop starts the coroutines in any order.
StartedInAnyOrder(r) == TRUE

\* run_coroutine_threadsafe hands the coroutine to the loop by
\* call_soon_threadsafe, and the loop runs its callbacks first in, first
\* out: the coroutine scheduled first takes its first step first.
StartedInOrder(r) == \A q \in Relays : q < r => relays[q].pc # "ready"

\* Lines 252-267 of a relay from the channel after index c, up to the await
\* of the first channel.send of the next channel found, or to the end.
PairGoToChannel(rel, c) ==
    LET n == NextChannel(c)
    IN  IF n = 0
        THEN [rel EXCEPT !.pc = "done", !.chan_i = 0, !.call_k = 0]
        ELSE [rel EXCEPT !.pc = "send", !.chan_i = n, !.call_k = 1]

\* Lines 241-267 of a relay once its downloads are over.
PairAfterDownloads(rel) ==
    PairGoToChannel([rel EXCEPT !.att_i = 0,
                                !.discord_embeds = BuildEmbeds(ListOf(rel.args.embeds))],
                    0)

\* The loop starts the coroutine of relay r: lines 229-237 up to its first
\* request, or, with nothing to fetch, on to its first channel.send.
PairBegin(r) ==
    /\ relays[r].pc = "ready"
    /\ StartedInOrder(r)
    /\ LET rel == relays[r]
           first == RequestAfter(ListOf(rel.args.attachments), 0)
       IN  relays' = [relays EXCEPT ![r] =
              IF TARGET_OUTPUT_CHANNEL_IDS = <<>> THEN [rel EXCEPT !.pc = "done"]
              ELSE IF first # 0 THEN [rel EXCEPT !.pc = "fetch", !.att_i = first]
              ELSE PairAfterDownloads(rel)]
    /\ UNCHANGED <<TARGET_OUTPUT_CHANNEL_IDS, channels, soloVars, pairLog, monitorVars>>

\* The request of download_attachment of relay r completes (lines 168-177);
\* its download loop goes on (lines 236-239).
PairDownloadDone(r, outcome) ==
    /\ relays[r].pc = "fetch"
    /\ outcome # "200" => relays[r].att_i <= FailRefs
    /\ LET rel == relays[r]
           req == AttachmentRequest(ListOf(rel.args.attachments)[rel.att_i])
           got == IF outcome = "200"
                  THEN [rel EXCEPT !.files_data =
                           Append(rel.files_data,
                                  [fp |-> rel.att_i, filename |-> req.filename])]
                  ELSE rel
           next == RequestAfter(ListOf(rel.args.attachments), rel.att_i)
       IN  relays' = [relays EXCEPT ![r] =
              IF next # 0 THEN [got EXCEPT !.att_i = next]
              ELSE PairAfterDownloads(got)]
    /\ UNCHANGED <<TARGET_OUTPUT_CHANNEL_IDS, channels, soloVars, pairLog, monitorVars>>

PairSendFailures == Cardinality({n \in 1..Len(pairLog) : ~pairLog[n].ok})

\* An awaited channel.send of relay r completes or raises: the next call of
\* send_to_discord_channel follows, or, after the last one and after one
\* that raised, the next channel.
PairSendDone(r, ok) ==
    /\ relays[r].pc = "send"
    /\ ~ok => PairSendFailures < MaxSendFail
    /\ LET rel == relays[r]
           calls == SendCalls(rel.args.message, ChannelFiles(rel.files_data),
                              rel.discord_embeds)
       IN  /\ pairLog' = Append(pairLog, [relay |-> r, chan |-> rel.chan_i,
                                          k |-> rel.call_k, ok |-> ok])
           /\ relays' = [relays EXCEPT ![r] =
                 IF ok /\ rel.call_k < Len(calls)
                 THEN [rel EXCEPT !.call_k = rel.call_k + 1]
                 ELSE PairGoToChannel(rel, rel.chan_i)]
    /\ UNCHANGED <<TARGET_OUTPUT_CHANNEL_IDS, channels, soloVars, monitorVars>>

PairNext ==
    \/ \E r \in Relays, d \in PairRequests : PairReceive(r, d)
    \/ \E r \in Relays : PairBegin(r)
    \/ \E r \in Relays, outcome \in {"200", "404", "error"} : PairDownloadDone(r, outcome)
    \/ \E r \in Relays, ok \in BOOLEAN : PairSendDone(r, ok)

PairSpec == Init /\ [][PairNext]_vars

(***************************************************************************)
(* self_bot.py: the source monitor.  on_message has no await: the loop of  *)
(* the client runs each call of it from its first line to its last,        *)
(* requests.post included, before it handles the next event.               *)
(***************************************************************************)
RECURSIVE SplitComma(_)
\* channel_ids_str.split(',')
SplitComma(s) ==
    LET cs == {p \in 1..Len(s) : s[p] = ","}
    IN  IF cs = {} THEN <<s>>
        ELSE LET p == CHOOSE c \in cs : \A d \in cs : c <= d
             IN  <<SubSeq(s, 1, p - 1)>> \o SplitComma(SubSeq(s, p + 1, Len(s)))

\* id_str.strip()
Strip(s) ==
    LET ns == {p \in 1..Len(s) : s[p] \notin Whitespace}
    IN  IF ns = {} THEN <<>>
        ELSE SubSeq(s, CHOOSE a \in ns : \A b \in ns : a <= b,
                       CHOOSE a \in ns : \A b \in ns : a >= b)

\* id_str.isdigit()
isdigit(s) == s # <<>> /\ \A p \in 1..Len(s) : s[p] \in Digit

RECURSIVE IntOf(_)
\* int(id_str) of a string of decimal digits
IntOf(s) ==
    IF s = <<>> THEN 0
    ELSE 10 * IntOf(SubSeq(s, 1, Len(s) - 1)) + DigitVal(s[Len(s)])

\* Lines 20-30: the set of the integers written in the comma-separated
\* string; the parts that are not all digits are left out.
parse_channel_ids(channel_ids_str) ==
    IF channel_ids_str = <<>> THEN {}
    ELSE LET parts == SplitComma(channel_ids_str)
         IN  {IntOf(Strip(parts[i])) : i \in {j \in 1..Len(parts) : isdigit(Strip(parts[j]))}}

\* Values of TARGET_INPUT_CHANNEL_IDS: two ids, the same two among parts
\* that are not ids, not set, and no id at all.
InputConfigs ==
    {<<"7", ",", " ", "8">>,
     <<"7", ",", "x", ",", ",", "0", "8", " ", ",", "7", ",", "-", "1">>,
     <<>>,
     <<"a", ",", " ">>}

\* value if value else None
OrNone(j) == IF Truthy(j) THEN j ELSE JNull

\* The attributes of a discord.Embed that extract_embed_data reads.  An
\* attribute that is not set is None here; a proxy (footer, image, ...) is a
\* dict of what it holds and is false when it holds nothing; the colour and
\* the timestamp are objects, true whatever their value.
EmbedAttrs == {"title", "description", "url", "color", "timestamp", "footer",
               "image", "thumbnail", "author", "fields", "video", "provider"}

\* Lines 32-104: the dict of the attributes of the embed that are set.
extract_embed_data(embed) ==
    LET At(j, k) == Get(j.v, k, JNull)
        Sized(j) == JDict([url |-> At(j, "url"), width |-> At(j, "width"),
                           height |-> At(j, "height")])
        Conv(k) ==
            CASE k \in {"title", "description", "url"} -> embed[k]
              [] k = "color" -> At(embed.color, "value")
              [] k = "timestamp" -> At(embed.timestamp, "isoformat")
              [] k = "footer" ->
                    JDict([text |-> At(embed.footer, "text"),
                           icon_url |-> OrNone(At(embed.footer, "icon_url"))])
              [] k \in {"image", "thumbnail", "video"} -> Sized(embed[k])
              [] k = "author" ->
                    JDict([name |-> At(embed.author, "name"),
                           url |-> OrNone(At(embed.author, "url")),
                           icon_url |-> OrNone(At(embed.author, "icon_url"))])
              [] k = "fields" ->
                    JList([i \in 1..Len(embed.fields.v) |->
                              JDict([name |-> At(embed.fields.v[i], "name"),
                                     value |-> At(embed.fields.v[i], "value"),
                                     inline |-> At(embed.fields.v[i], "inline")])])
              [] k = "provider" ->
                    JDict([name |-> At(embed.provider, "name"),
                           url |-> OrNone(At(embed.provider, "url"))])
    IN  JDict([k \in {a \in EmbedAttrs : Truthy(embed[a])} |-> Conv(k)])

\* An embed with nothing set, and one with a title, a colour, a footer
\* without icon, an image and a field.
NoEmbed == [a \in EmbedAttrs |-> JNull]
SomeEmbed ==
    [NoEmbed EXCEPT !["title"] = JStr(<<"t">>),
                    !["color"] = JDict([value |-> JInt(0)]),
                    !["footer"] = JDict([text |-> JStr(<<"f">>)]),
                    !["image"] = JDict([url |-> JStr(<<"i">>), width |-> JInt(4),
                                        height |-> JInt(3)]),
                    !["fields"] = JList(<<JDict([name |-> JStr(<<"n">>),
                                                 value |-> JStr(<<"v">>),
                                                 inline |-> JInt(1)])>>)]

\* The channels messages arrive in: a text channel that is monitored, a
\* direct-message channel that is monitored, and a text channel that is
\* not.  A direct-message channel of discord has an id and a recipient and no
\* attribute name.
SourceChannels ==
    {[id |-> 7, name |-> JStr(ChannelName)],
     [id |-> 8],
     [id |-> 9, name |-> JStr(<<"o">>)]}

\* The attachment of a message, as discord.Attachment holds it.
SourceAttachment == [url |-> JStr(AttachmentUrl(1)), filename |-> JStr(AttachmentName(1)),
                     size |-> JInt(1), content_type |-> JStr(<<"i", "m", "g">>)]

\* The messages the gateway hands to on_message: text alone, and text with
\* an attachment and two embeds, in each channel.
SourceMessages ==
    {[channel |-> ch, author |-> JStr(<<"u">>), content |-> JStr(ShortText),
      attachments |-> att, embeds |-> emb] :
        ch \in SourceChannels,
        att \in {<<>>}, emb \in {<<>>}}
    \cup
    {[channel |-> ch, author |-> JStr(<<"u">>), content |-> JStr(ShortText),
      attachments |-> <<SourceAttachment>>, embeds |-> <<NoEmbed, SomeEmbed>>] :
        ch \in SourceChannels}

\* Lines 20-30 and 209-221: the ids are parsed; with none the process
\* exits, otherwise the client is made with them and run.
MonitorStart(channel_ids_str) ==
    /\ mpc = "init"
    /\ LET channel_ids == parse_channel_ids(channel_ids_str)
       IN  IF channel_ids = {}
           THEN mpc' = "exited" /\ UNCHANGED target_channel_ids
           ELSE mpc' = "running" /\ target_channel_ids' = channel_ids
    /\ UNCHANGED <<events, forwardLog>>
    /\ UNCHANGED <<TARGET_OUTPUT_CHANNEL_IDS, channels, soloVars, pairVars>>

\* Lines 142-168: the payload of a message.  message.channel.name raises
\* AttributeError for a channel without that attribute.
MessageData(message) ==
    IF "name" \notin DOMAIN message.channel THEN [ok |-> FALSE, data |-> JNull]
    ELSE [ok |-> TRUE,
          data |-> JDict([timestamp |-> JStr(SelfBotTime),
                          channel_id |-> JInt(message.channel.id),
                          channel_name |-> message.channel.name,
                          author |-> message.author,
                          content |-> message.content,
                          attachments |->
                              JList([i \in 1..Len(message.attachments) |->
                                        JDict(message.attachments[i])]),
                          embeds |->
                              JList([i \in 1..Len(message.embeds) |->
                                        extract_embed_data(message.embeds[i])])])]

\* What requests.post(..., timeout=5) comes to: a response with status 200
\* or with another status, or a RequestException (no connection, or no
\* answer within the timeout).
PostOutcomes == {"200", "500", "ConnectionError", "Timeout"}

\* Lines 136-199, one call of on_message: a message of a channel that is
\* not monitored is left alone; otherwise the payload is built and posted
\* once, and whatever the post comes to, the handler returns.  An exception
\* that leaves on_message is caught by the client, which reports it and
\* goes on with the next event.
on_message(message, outcome) ==
    /\ mpc = "running"
    /\ Len(events) < MaxMessages
    /\ LET n == Len(events) + 1
           built == MessageData(message)
       IN  IF message.channel.id \notin target_channel_ids
           THEN /\ outcome = "none"
                /\ events' = Append(events, [channel_id |-> message.channel.id,
                                             result |-> "ignored"])
                /\ UNCHANGED forwardLog
           ELSE IF ~built.ok
           THEN /\ outcome = "none"
                /\ events' = Append(events, [channel_id |-> message.channel.id,
                                             result |-> "raised"])
                /\ UNCHANGED forwardLog
           ELSE /\ outcome \in PostOutcomes
                /\ forwardLog' = Append(forwardLog, [event |-> n, json |-> built.data,
                                                     outcome |-> outcome])
                /\ events' = Append(events,
                        [channel_id |-> message.channel.id,
                         result |-> IF outcome = "200" THEN "forwarded" ELSE "failed"])
    /\ UNCHANGED <<target_channel_ids, mpc>>
    /\ UNCHANGED <<TARGET_OUTPUT_CHANNEL_IDS, channels, soloVars, pairVars>>

MonitorNext ==
    \/ \E channel_ids_str \in InputConfigs : MonitorStart(channel_ids_str)
    \/ \E message \in SourceMessages, outcome \in PostOutcomes \cup {"none"} :
          on_message(message, outcome)

MonitorSpec == Init /\ [][MonitorNext]_vars

(***************************************************************************)
(* What the logs show.                                                     *)
(***************************************************************************)
Destinations == 1..Len(TARGET_OUTPUT_CHANNEL_IDS)
Resolved(c) == TARGET_OUTPUT_CHANNEL_IDS[c] \in channels
ResolvedDestinations == {c \in Destinations : Resolved(c)}

\* The channel.send calls made to destination c, in the order made.
SendsTo(c) == SelectSeq(sendLog, LAMBDA r : r.chan = c)
\* No channel.send to destination c raised.
NoSendFailed(c) == \A n \in 1..Len(sendLog) : sendLog[n].chan = c => sendLog[n].ok
\* The relay is over.
Done == tpc = "done"

RECURSIVE Flatten(_)
\* The concatenation of a sequence of sequences.
Flatten(ss) == IF ss = <<>> THEN <<>> ELSE Head(ss) \o Flatten(Tail(ss))

\* The texts carried by a sequence of sends, in order.
TextsOf(sends) ==
    LET withText == SelectSeq(sends, LAMBDA r : r.content.t = "str")
    IN  [n \in 1..Len(withText) |-> withText[n].content.v]
\* The buffers of the files carried by a sequence of sends, in order.
FilesOf(sends) == Flatten([n \in 1..Len(sends) |->
                              [j \in 1..Len(sends[n].files) |-> sends[n].files[j].fp]])
EmbedsOf(sends) == Flatten([n \in 1..Len(sends) |-> sends[n].embeds])

(***************************************************************************)
(* C1.  For a relay text of length L every resolved destination (whose     *)
(* sends all succeeded) has received, once the relay is over,              *)
(* ceil(L / 2000) text chunks of at most 2000 characters each, whose       *)
(* concatenation in send order is the relay text.                          *)
(* The code cuts a text of more than 2000 characters to 1997 characters    *)
(* and "..." and sends that one chunk, so this is violated.                *)
(***************************************************************************)
C1_TextSplitLossless ==
    Done =>
        \A c \in ResolvedDestinations :
            NoSendFailed(c) =>
                LET texts == TextsOf(SendsTo(c))
                IN  /\ Len(texts) = Ceil(Len(args.message), MaxText)
                    /\ \A n \in 1..Len(texts) : Len(texts[n]) <= MaxText
                    /\ Flatten(texts) = args.message

\* What the code does keep of C1: a relay text of at most 2000 characters is
\* sent whole, in one chunk.
C1_ShortTextSentWhole ==
    (Done /\ Len(args.message) <= MaxText) =>
        \A c \in ResolvedDestinations :
            NoSendFailed(c) => TextsOf(SendsTo(c)) = <<args.message>>

\* The number of channel.send calls send_to_discord_channel has to make.
PlannedCalls == Len(SendCalls(args.message, ChannelFiles(files_data), discord_embeds))

(***************************************************************************)
(* C2.  After a channel.send of batch k to destination d has raised, the   *)
(* batches after k are still attempted on d, and every batch is still      *)
(* attempted on every resolved destination after d.                        *)
(* The try of send_to_discord_channel encloses all its sends, so the       *)
(* first one that raises ends the sends to that destination: violated.     *)
(***************************************************************************)
C2_FailedBatchDoesNotStopTheRest ==
    Done =>
        \A n \in 1..Len(sendLog) :
            ~sendLog[n].ok =>
                /\ \A k \in (sendLog[n].k + 1)..PlannedCalls :
                      \E m \in (n + 1)..Len(sendLog) :
                          sendLog[m].chan = sendLog[n].chan /\ sendLog[m].k = k
                /\ \A c \in ResolvedDestinations :
                      c > sendLog[n].chan =>
                          \A k \in 1..PlannedCalls :
                              \E m \in (n + 1)..Len(sendLog) :
                                  sendLog[m].chan = c /\ sendLog[m].k = k

\* The part of C2 that holds when no later send raises: a send that raised on
\* destination d leaves the sends to the destinations after d as they are.
C2_LaterDestinationsStillSent ==
    Done =>
        \A n \in 1..Len(sendLog) :
            ~sendLog[n].ok =>
                \A c \in ResolvedDestinations :
                    (c > sendLog[n].chan /\ NoSendFailed(c)) =>
                        Len(SendsTo(c)) = PlannedCalls

(***************************************************************************)
(* C3.  Every channel.send carries a text of at most 2000 characters, at   *)
(* most 10 files and at most 10 embeds.                                    *)
(***************************************************************************)
C3_EverySendWithinLimits ==
    \A n \in 1..Len(sendLog) :
        /\ sendLog[n].content.t = "str" => Len(sendLog[n].content.v) <= MaxText
        /\ Len(sendLog[n].files) <= MaxFiles
        /\ Len(sendLog[n].embeds) <= MaxEmbeds

\* A send at all three limits, of a relay that exceeds all three.
C3_Witness ==
    /\ Len(args.message) > MaxText
    /\ Len(files_data) > MaxFiles
    /\ Len(discord_embeds) > MaxEmbeds
    /\ \E n \in 1..Len(sendLog) :
          /\ sendLog[n].content.t = "str" /\ Len(sendLog[n].content.v) = MaxText
          /\ Len(sendLog[n].files) = MaxFiles
          /\ Len(sendLog[n].embeds) = MaxEmbeds

\* The requests made for attachment i.
FetchesOf(i) == {n \in 1..Len(fetchLog) : fetchLog[n].ref = i}

(***************************************************************************)
(* C4.  Within one relay each attachment reference is requested exactly    *)
(* once, whatever the number of destinations: never more than once, once   *)
(* the downloads are over exactly once (a reference for which              *)
(* download_attachment can make no request, not at all), and every file    *)
(* sent to any destination is the buffer of that one request, with its     *)
(* bytes.                                                                  *)
(***************************************************************************)
C4_EachReferenceFetchedOnce ==
    /\ \A n \in 1..Len(fetchLog) : fetchLog[n].ref \in 1..Len(AttachmentList)
    /\ \A i \in 1..Len(AttachmentList) :
          /\ Cardinality(FetchesOf(i)) <= 1
          /\ tpc \in {"send", "done"} =>
                Cardinality(FetchesOf(i)) =
                    IF AttachmentRequest(AttachmentList[i]).ok THEN 1 ELSE 0
    /\ \A n \in 1..Len(sendLog) :
          \A j \in 1..Len(sendLog[n].files) :
              LET f == sendLog[n].files[j]
                  b == buffers[f.fp]
              IN  /\ FetchesOf(b.ref) = {b.fetch}
                  /\ fetchLog[b.fetch].outcome = "200"
                  /\ f.bytes = Bytes(b.ref, b.fetch)

\* Two destinations have both been sent the files of a relay with several
\* attachments, out of one request per attachment.
C4_Witness ==
    /\ Done
    /\ Cardinality(ResolvedDestinations) >= 2
    /\ Len(AttachmentList) >= 2
    /\ Len(fetchLog) = Len(AttachmentList)
    /\ \A c \in ResolvedDestinations :
          NoSendFailed(c) /\ FilesOf(SendsTo(c)) = [k \in 1..Len(files_data) |-> files_data[k].fp]
    /\ Len(files_data) = Len(AttachmentList)

(***************************************************************************)
(* C5.  When the content is empty and the relay has no fetched file and no *)
(* built embed, no channel.send is made.                                   *)
(* The relay text always starts with the header line, so the code sends    *)
(* the header alone: violated.                                             *)
(***************************************************************************)
C5_EmptyRecordSendsNothing ==
    (/\ tpc # "none"
     /\ Get(data.v, "content", JStr(<<>>)) = JStr(<<>>)
     /\ files_data = <<>>
     /\ discord_embeds = <<>>)
        => sendLog = <<>>

\* The k-th channel.send send_to_discord_channel has to make.
PlannedCall(k) == SendCalls(args.message, ChannelFiles(files_data), discord_embeds)[k]

(***************************************************************************)
(* C6.  A destination id that client.get_channel does not find is skipped  *)
(* and the relay goes on: no channel.send is made to it; every id of the   *)
(* list, also after it, is looked up; and send_to_discord_channel is run   *)
(* on every destination found, with the whole message, files and embeds:   *)
(* the sends made to it are the planned calls in order, from the first     *)
(* on, and all of them unless one of its own sends raised (what a send     *)
(* that raises does to the later batches is the matter of C2).             *)
(***************************************************************************)
C6_UnresolvedDestinationSkipped ==
    /\ \A n \in 1..Len(sendLog) : Resolved(sendLog[n].chan)
    /\ Done =>
          /\ resolveLog = [c \in Destinations |-> [chan |-> c, found |-> Resolved(c)]]
          /\ \A c \in ResolvedDestinations :
                LET sends == SendsTo(c)
                IN  /\ Len(sends) \in 1..PlannedCalls
                    /\ \A m \in 1..Len(sends) :
                          /\ sends[m].k = m
                          /\ sends[m].content = PlannedCall(m).content
                          /\ sends[m].embeds = PlannedCall(m).embeds
                          /\ FilesOf(<<sends[m]>>) =
                                [j \in 1..Len(PlannedCall(m).files) |-> PlannedCall(m).files[j].fp]
                    /\ NoSendFailed(c) => Len(sends) = PlannedCalls

\* The first destination was not found and the second has been sent a relay
\* of several batches.
C6_Witness ==
    /\ Done
    /\ Len(TARGET_OUTPUT_CHANNEL_IDS) >= 2
    /\ ~Resolved(1) /\ Resolved(2)
    /\ NoSendFailed(2)
    /\ Len(SendsTo(2)) >= 3

\* The sends that carry files.
WithFiles(sends) == SelectSeq(sends, LAMBDA r : r.files # <<>>)

(***************************************************************************)
(* C7.  With F fetched files, a resolved destination none of whose sends   *)
(* raised has received, once the relay is over, exactly ceil(F / 10) sends *)
(* that carry files; they carry 10 files each but the last, and their      *)
(* files, taken in send order, are the F files in their original order,    *)
(* each once.  When no send raised at all, the sends that carry files      *)
(* number D x ceil(F / 10) for D resolved destinations.                    *)
(***************************************************************************)
C7_FileBatches ==
    Done =>
        LET F == Len(files_data)
        IN  /\ \A c \in ResolvedDestinations :
                  NoSendFailed(c) =>
                      LET fs == WithFiles(SendsTo(c))
                      IN  /\ Len(fs) = Ceil(F, MaxFiles)
                          /\ FilesOf(fs) = [k \in 1..F |-> files_data[k].fp]
                          /\ \A m \in 1..Len(fs) :
                                Len(fs[m].files) =
                                    IF m < Len(fs) THEN MaxFiles ELSE F - MaxFiles * (m - 1)
            /\ \A k, m \in 1..F : files_data[k].fp = files_data[m].fp => k = m
            /\ SendFailures = 0 =>
                  Len(WithFiles(sendLog)) = Cardinality(ResolvedDestinations) * Ceil(F, MaxFiles)

\* 12 files to 2 destinations: 10 then 2 to each, 4 sends with files in all.
C7_Witness ==
    /\ Done
    /\ Len(files_data) = 12
    /\ Cardinality(ResolvedDestinations) = 2
    /\ SendFailures = 0
    /\ Len(WithFiles(sendLog)) = 4
    /\ \A c \in ResolvedDestinations :
          /\ Len(WithFiles(SendsTo(c))[1].files) = 10
          /\ Len(WithFiles(SendsTo(c))[2].files) = 2

(***************************************************************************)
(* C8.  With E built embeds, a resolved destination none of whose sends    *)
(* raised has received, once the relay is over: the first min(E, 10)       *)
(* embeds in its first send; then exactly ceil(max(E - 10, 0) / 10) sends  *)
(* of embeds alone, each after every later send that carries files; and    *)
(* over all its sends every embed once, in the original order.             *)
(***************************************************************************)
C8_EmbedBatches ==
    Done =>
        \A c \in ResolvedDestinations :
            NoSendFailed(c) =>
                LET E == Len(discord_embeds)
                    sends == SendsTo(c)
                    later == 2..Len(sends)
                    embedSends == {m \in later : sends[m].embeds # <<>>}
                    fileSends == {m \in later : sends[m].files # <<>>}
                IN  /\ sends[1].embeds = Slice(discord_embeds, 0, Min(E, MaxEmbeds))
                    /\ Cardinality(embedSends) = Ceil(Max(E - MaxEmbeds, 0), MaxEmbeds)
                    /\ \A m \in embedSends :
                          /\ sends[m].files = <<>>
                          /\ sends[m].content = JNull
                          /\ \A f \in fileSends : f < m
                    /\ EmbedsOf(sends) = discord_embeds

\* 15 embeds: 10 in the first send, 5 in a send of their own that follows
\* the send of the files the first one could not take.
C8_Witness ==
    /\ Done
    /\ Len(discord_embeds) = 15
    /\ \E c \in ResolvedDestinations :
          /\ NoSendFailed(c)
          /\ Len(SendsTo(c)) = 3
          /\ Len(SendsTo(c)[1].embeds) = 10
          /\ SendsTo(c)[2].files # <<>>
          /\ Len(SendsTo(c)[3].embeds) = 5

(***************************************************************************)
(* C9.  receive_message hands the relay to client.loop and returns: no     *)
(* step of the handler makes a request, a lookup or a send; once the relay *)
(* is scheduled the handler can return whatever the relay is doing; and    *)
(* the acknowledgment of a scheduled relay is the success one and stays    *)
(* it, whatever the outcome of the downloads and sends.                    *)
(***************************************************************************)
C9_HandOffIsFireAndForget ==
    /\ [][hpc' # hpc =>
             /\ fetchLog' = fetchLog /\ sendLog' = sendLog /\ resolveLog' = resolveLog
             /\ tpc' # tpc => (tpc = "none" /\ tpc' = "ready")]_vars
    /\ [](hpc = "respond" => ENABLED Respond)
    /\ []((hpc = "returned" /\ tpc # "none") => response = SuccessAck)
    /\ [][(hpc = "returned" /\ tpc # "none") => response' = response]_vars

\* The success acknowledgment stands after a relay in which a download and
\* a send have failed.
C9_Witness ==
    /\ hpc = "returned" /\ response = SuccessAck
    /\ Done
    /\ \E n \in 1..Len(fetchLog) : fetchLog[n].outcome # "200"
    /\ \E n \in 1..Len(sendLog) : ~sendLog[n].ok

(***************************************************************************)
(* C10.  No exception leaves receive_message: it ends with the success     *)
(* acknowledgment or with an error acknowledgment that carries a message;  *)
(* and for a body it cannot process it ends with the error one, with no    *)
(* relay scheduled, no request made and nothing sent.                      *)
(***************************************************************************)
C10_IngestionNeverRaises ==
    /\ hpc # "raised"
    /\ hpc = "returned" =>
          \/ response = SuccessAck
          \/ /\ response.status = "error" /\ response.code = 500
             /\ response.message # ""
             /\ tpc = "none" /\ fetchLog = <<>> /\ resolveLog = <<>> /\ sendLog = <<>>
    /\ (hpc # "idle" /\ HandlerRaises(data) # "none") =>
          /\ hpc = "returned" /\ response = ErrorAck(HandlerRaises(data))
          /\ tpc = "none" /\ fetchLog = <<>> /\ sendLog = <<>>

\* A body that carries attachments and cannot be processed was rejected
\* while output channels were configured and found.
C10_Witness ==
    /\ hpc = "returned" /\ response.status = "error"
    /\ data.t = "dict"
    /\ Truthy(Get(data.v, "attachments", JList(<<>>)))
    /\ ResolvedDestinations # {}

\* The attachment references whose request got status 200, in request order.
FetchedRefs ==
    LET got == SelectSeq(fetchLog, LAMBDA r : r.outcome = "200")
    IN  [n \in 1..Len(got) |-> got[n].ref]

\* The attachment reference each downloaded file comes from.
FileRefs == [k \in 1..Len(files_data) |-> buffers[files_data[k].fp].ref]

(***************************************************************************)
(* C11.  With N attachment references, a request that ends with another    *)
(* status than 200 or with a transport error makes that reference be       *)
(* skipped: it is not requested again, and the references after it are     *)
(* still requested.  At most N requests are made, in the order of the      *)
(* references; the fetched files number at most N and are those of the     *)
(* successful requests, in the order of their references.  The relay then  *)
(* sends its text to every destination found, with the fetched files and   *)
(* none for the failed reference, and the ingestion caller still gets the  *)
(* success acknowledgment.                                                 *)
(***************************************************************************)
C11_FailedFetchSkipped ==
    LET N == Len(AttachmentList)
    IN  /\ Len(fetchLog) <= N
        /\ \A n \in 2..Len(fetchLog) : fetchLog[n - 1].ref < fetchLog[n].ref
        /\ Len(files_data) <= N
        /\ FileRefs = FetchedRefs
        /\ \A k \in 2..Len(files_data) : FileRefs[k - 1] < FileRefs[k]
        /\ tpc \in {"send", "done"} =>
              \A i \in 1..N :
                  AttachmentRequest(AttachmentList[i]).ok => FetchesOf(i) # {}
        /\ Done =>
              \A c \in ResolvedDestinations :
                  LET sends == SendsTo(c)
                      sent == FilesOf(sends)
                  IN  /\ sends # <<>>
                      /\ sends[1].content = JStr(msg_to_send(args.message))
                      /\ \A n \in 1..Len(sent) : sent[n] = files_data[n].fp
                      /\ NoSendFailed(c) => Len(sent) = Len(files_data)
        /\ (hpc = "returned" /\ tpc # "none") => response = SuccessAck

\* The first of several requests failed, the later ones were made and
\* succeeded, and a destination was sent the text with the other files while
\* the caller got the success acknowledgment.
C11_Witness ==
    /\ Done
    /\ hpc = "returned" /\ response = SuccessAck
    /\ Len(AttachmentList) >= 3
    /\ fetchLog[1].outcome # "200"
    /\ Len(fetchLog) = Len(AttachmentList)
    /\ Len(files_data) = Len(AttachmentList) - 1
    /\ \E c \in ResolvedDestinations :
          /\ NoSendFailed(c)
          /\ SendsTo(c)[1].content.t = "str"
          /\ FilesOf(SendsTo(c)) = [k \in 1..Len(files_data) |-> files_data[k].fp]
          /\ \A n \in 1..Len(FilesOf(SendsTo(c))) : buffers[FilesOf(SendsTo(c))[n]].ref # 1

\* The indexes of the embed specs create_discord_embed builds, in order.
GoodSpecs ==
    SelectSeq([i \in 1..Len(EmbedList) |-> i],
              LAMBDA i : create_discord_embed(EmbedList[i]).ok)

(***************************************************************************)
(* C12.  An embed spec whose construction raises is left out and nothing   *)
(* else is: once the embeds are built, the built embeds are the embeds of  *)
(* all the other specs of the record, those before and those after it, in  *)
(* the order of their specs; and the relay goes on to look up every        *)
(* destination and to send the built embeds to the ones found.             *)
(***************************************************************************)
C12_FailedEmbedDropped ==
    /\ tpc \in {"send", "done"} =>
          LET good == GoodSpecs
          IN  /\ Len(discord_embeds) = Len(good)
              /\ \A k \in 1..Len(good) :
                    discord_embeds[k] = create_discord_embed(EmbedList[good[k]]).embed
    /\ Done =>
          /\ Len(resolveLog) = Len(TARGET_OUTPUT_CHANNEL_IDS)
          /\ \A c \in ResolvedDestinations :
                LET sends == SendsTo(c)
                IN  /\ sends # <<>>
                    /\ sends[1].embeds = Slice(discord_embeds, 0, MaxEmbeds)
                    /\ NoSendFailed(c) => EmbedsOf(sends) = discord_embeds

\* Of five specs the first and the fourth raised; the three others were
\* built and sent.
C12_Witness ==
    /\ Done
    /\ Len(EmbedList) = 5
    /\ ~create_discord_embed(EmbedList[1]).ok
    /\ ~create_discord_embed(EmbedList[4]).ok
    /\ GoodSpecs = <<2, 3, 5>>
    /\ \E c \in ResolvedDestinations :
          /\ Len(SendsTo(c)[1].embeds) = 3
          /\ SendsTo(c)[1].embeds[3] = create_discord_embed(EmbedList[5]).embed
          /\ SendsTo(c)[1].embeds[2].title = JStr(<<"t">>)

\* Text s starts with text p.
StartsWith(s, p) == Len(p) <= Len(s) /\ SubSeq(s, 1, Len(p)) = p

(***************************************************************************)
(* C13.  The sends to one destination are made one after another in the    *)
(* planned order.  The first carries the text, the first 10 files and the  *)
(* first 10 embeds; every later one carries no text, and files alone or    *)
(* embeds alone, continuing the files and the embeds in order; a send is   *)
(* begun only when every earlier send to the destination has completed,    *)
(* so the only send awaited is the one that follows those completed.       *)
(* (The text carried is the relay text when it has at most 2000            *)
(* characters, and starts with its first 1997 characters when it is        *)
(* longer: the cut is the matter of C1.)                                   *)
(***************************************************************************)
C13_BatchesOneAfterAnother ==
    /\ \A c \in Destinations :
          LET sends == SendsTo(c)
              fps == [k \in 1..Len(files_data) |-> files_data[k].fp]
          IN  /\ \A m \in 1..Len(sends) : sends[m].k = m
              /\ \A m \in 1..(Len(sends) - 1) : sends[m].ok
              /\ sends # <<>> =>
                    /\ sends[1].content.t = "str"
                    /\ Len(args.message) <= MaxText => sends[1].content.v = args.message
                    /\ StartsWith(sends[1].content.v,
                                  Slice(args.message, 0, Min(TruncLen, Len(args.message))))
                    /\ FilesOf(<<sends[1]>>) = Slice(fps, 0, MaxFiles)
                    /\ sends[1].embeds = Slice(discord_embeds, 0, MaxEmbeds)
              /\ \A m \in 2..Len(sends) :
                    /\ sends[m].content = JNull
                    /\ (sends[m].files = <<>>) # (sends[m].embeds = <<>>)
              /\ StartsWith(fps, FilesOf(sends))
              /\ StartsWith(discord_embeds, EmbedsOf(sends))
    /\ tpc = "send" =>
          /\ call_k = Len(SendsTo(chan_i)) + 1
          /\ \A n \in 1..Len(sendLog) : sendLog[n].chan <= chan_i
          /\ \A n \in 1..Len(sendLog) : sendLog[n].chan = chan_i => sendLog[n].ok
    /\ \A n, m \in 1..Len(sendLog) : n < m => sendLog[n].chan <= sendLog[m].chan

\* The third send to a destination is awaited after the first, with the
\* text, 10 files and 10 embeds, and the second, with files alone, have
\* completed.
C13_Witness ==
    /\ tpc = "send" /\ call_k = 3
    /\ LET sends == SendsTo(chan_i)
       IN  /\ Len(sends) = 2
           /\ sends[1].content.t = "str"
           /\ Len(sends[1].files) = MaxFiles /\ Len(sends[1].embeds) = MaxEmbeds
           /\ sends[2].content = JNull
           /\ sends[2].files # <<>> /\ sends[2].embeds = <<>>
    /\ Len(discord_embeds) > MaxEmbeds

\* The files of the current channel that its sends so far have not carried.
FilesToSend ==
    LET sent == FilesOf(SendsTo(chan_i))
    IN  {k \in 1..Len(channel_files) :
            \A n \in 1..Len(sent) : sent[n] # channel_files[k].fp}

(***************************************************************************)
(* C14.  Every send of a fetched file to a destination transmits the       *)
(* complete bytes of the download, from offset 0, whatever the sends to    *)
(* the destinations before it did to the buffer: whether they read it to   *)
(* the end, or raised before reading it or part-way, and closed their     *)
(* discord.File.  A file about to be sent to the current destination has   *)
(* its read position at 0, no buffer is closed, and two sends of the same  *)
(* file carry the same bytes.                                              *)
(***************************************************************************)
C14_EachSendReadsAllBytes ==
    /\ \A n \in 1..Len(sendLog) :
          \A j \in 1..Len(sendLog[n].files) :
              LET f == sendLog[n].files[j]
              IN  /\ f.bytes = buffers[f.fp].data
                  /\ Len(f.bytes) = 3
                  /\ \A m \in 1..Len(sendLog) :
                        \A i \in 1..Len(sendLog[m].files) :
                            sendLog[m].files[i].fp = f.fp
                                => sendLog[m].files[i].bytes = f.bytes
    /\ tpc = "send" => \A k \in FilesToSend : buffers[channel_files[k].fp].pos = 0
    /\ \A b \in 1..Len(buffers) : ~buffers[b].closed

\* A send of files to the first destination raised, before it read them,
\* part-way or at the end, and the second destination was then sent the same
\* files.
C14_Witness ==
    /\ Done
    /\ \E n, m \in 1..Len(sendLog) :
          /\ n < m
          /\ sendLog[n].chan = 1 /\ ~sendLog[n].ok
          /\ sendLog[m].chan = 2 /\ sendLog[m].ok
          /\ Len(sendLog[n].files) >= 2
          /\ FilesOf(<<sendLog[n]>>) = FilesOf(<<sendLog[m]>>)
          /\ \A j \in 1..Len(sendLog[m].files) :
                sendLog[m].files[j].bytes = buffers[sendLog[m].files[j].fp].data

\* The attachment references for which download_attachment makes a request.
Requestable == {i \in 1..Len(AttachmentList) : AttachmentRequest(AttachmentList[i]).ok}

\* Every request of the relay has been made and has completed.
FetchesOver == \A i \in Requestable : FetchesOf(i) # {}

(***************************************************************************)
(* C15.  Within one relay no destination is looked up and no send is made  *)
(* or begun while a request for an attachment is awaited or still to be    *)
(* made: the sends start when every request has completed, with a file or  *)
(* without.  From then on the list of fetched files does not change, and   *)
(* the files batched for each destination are that final list.             *)
(***************************************************************************)
C15_SendsAfterAllFetches ==
    /\ [](tpc = "fetch" => (sendLog = <<>> /\ resolveLog = <<>> /\ ~FetchesOver))
    /\ []((tpc = "send" \/ sendLog # <<>> \/ resolveLog # <<>>) => FetchesOver)
    /\ [](tpc = "send" =>
            /\ FileRefs = FetchedRefs
            /\ channel_files = ChannelFiles(files_data))
    /\ [][(tpc \in {"send", "done"}) =>
             (files_data' = files_data /\ fetchLog' = fetchLog)]_vars

\* Sends have been made after eleven requests, one of which failed, had all
\* completed.
C15_Witness ==
    /\ sendLog # <<>>
    /\ Len(AttachmentList) = MaxFiles + 1
    /\ Len(fetchLog) = MaxFiles + 1
    /\ Len(files_data) = MaxFiles
    /\ FilesOf(SendsTo(chan_i)) = [k \in 1..MaxFiles |-> files_data[k].fp]

\* The url of an attachment reference: the reference itself when it is a
\* string, its url when it is a dict.
UrlOf(ref) == IF ref.t = "str" THEN ref.v ELSE ref.v.url.v

\* Whether an attachment reference carries a filename.
HasFilename(ref) == ref.t = "dict" /\ "filename" \in DOMAIN ref.v

(***************************************************************************)
(* C16.  The filename of a fetched file is the filename of its attachment  *)
(* reference when the reference has one, and otherwise, for a bare URL     *)
(* string and for a dict without a filename, the last path segment of the  *)
(* URL without its query string.                                           *)
(* For a dict without a filename the code takes the fixed name             *)
(* 'attachment' and never looks at the URL: violated.                      *)
(***************************************************************************)
C16_FilenameFromReferenceOrUrl ==
    \A k \in 1..Len(files_data) :
        LET ref == AttachmentList[FileRefs[k]]
        IN  files_data[k].filename =
                IF HasFilename(ref) THEN ref.v.filename
                ELSE JStr(BeforeQuery(AfterLastSlash(UrlOf(ref))))

\* What the code does keep of C16: the filename of the reference when it has
\* one, and the name derived from the URL for a bare URL string.
C16_FilenameKeptOrDerivedForString ==
    \A k \in 1..Len(files_data) :
        LET ref == AttachmentList[FileRefs[k]]
        IN  /\ HasFilename(ref) => files_data[k].filename = ref.v.filename
            /\ ref.t = "str" =>
                  files_data[k].filename = JStr(BeforeQuery(AfterLastSlash(ref.v)))
            /\ ref = JStr(AttachmentUrl(1)) =>
                  files_data[k].filename = JStr(<<"f", "0", "1">>)

RawTimestamp == Get(data.v, "timestamp", JStr(<<"N", "/", "A">>))

\* The start of the header line for a displayed time.
HeaderStart(time) == <<BackQuote, "[">> \o time \o <<"]", " ", "#">>

(***************************************************************************)
(* C18.  The timestamp never makes receive_message raise and is never      *)
(* dropped.  For a body that is processed, a timestamp that does not parse *)
(* as an ISO date (with 'Z' read as +00:00), such as 'not-a-date', is      *)
(* shown as it came, character for character, at the head of the relay     *)
(* text; one that parses is shown as month, day and 12-hour time; and the  *)
(* record is relayed and acknowledged with success either way.             *)
(***************************************************************************)
C18_TimestampFallsBackToRaw ==
    /\ hpc # "raised"
    /\ (hpc # "idle" /\ HandlerRaises(data) = "none") =>
          LET ts == RawTimestamp
              parses == ts.t = "str" /\ fromisoformat(ReplaceZ(ts.v)).ok
          IN  /\ hpc = "returned" => response = SuccessAck
              /\ TARGET_OUTPUT_CHANNEL_IDS # <<>> =>
                    /\ tpc # "none"
                    /\ (ts.t = "str" /\ ~parses) =>
                          StartsWith(args.message, HeaderStart(ts.v))
                    /\ ts = JStr(NotADate) =>
                          StartsWith(args.message, HeaderStart(NotADate))
                    /\ ts = JNull =>
                          StartsWith(args.message, HeaderStart(<<"N", "o", "n", "e">>))
                    /\ parses =>
                          LET time == SubSeq(args.message, 3, 17)
                          IN  /\ StartsWith(args.message, HeaderStart(time))
                              /\ \A k \in 1..3 : time[k] \in Letter
                              /\ time[4] = ":" /\ time[5] = " " /\ time[8] = " "
                              /\ \A k \in {6, 7, 9, 10, 12, 13} : time[k] \in Digit
                              /\ time[11] = ":"
                              /\ SubSeq(time, 14, 15) \in {<<"a", "m">>, <<"p", "m">>}
                    /\ ts = JStr(IsoZ) =>
                          StartsWith(args.message,
                                     HeaderStart(<<"j", "a", "n", ":", " ", "0", "5", " ",
                                                   "0", "1", ":", "4", "5", "p", "m">>))

\* A record whose timestamp is 'not-a-date' has been acknowledged with
\* success and relayed to a destination under that timestamp.
C18_Witness ==
    /\ hpc = "returned" /\ response = SuccessAck
    /\ data.t = "dict" /\ RawTimestamp = JStr(NotADate)
    /\ Done
    /\ \E n \in 1..Len(sendLog) :
          /\ sendLog[n].ok
          /\ StartsWith(sendLog[n].content.v, HeaderStart(NotADate))

\* s[i..j] has the form '<', an optional 'a', ':', a name, ':', digits,
\* '>', with the colons at c1 and c2.
IsTag(s, i, c1, c2, j) ==
    /\ s[i] = "<" /\ s[j] = ">"
    /\ c1 = i + 1 \/ (c1 = i + 2 /\ s[i + 1] = "a")
    /\ s[c1] = ":" /\ s[c2] = ":"
    /\ c1 + 1 < c2 /\ \A k \in (c1 + 1)..(c2 - 1) : s[k] \in WordChar
    /\ c2 + 1 < j /\ \A k \in (c2 + 1)..(j - 1) : s[k] \in Digit

\* The substrings of s of that form.
Tags(s) ==
    LET At(c) == {p \in 1..Len(s) : s[p] = c}
    IN  {t \in [i : At("<"), c1 : At(":"), c2 : At(":"), j : At(">")] :
            t.i < t.c1 /\ t.c1 < t.c2 /\ t.c2 < t.j /\ IsTag(s, t.i, t.c1, t.c2, t.j)}

\* s with every such substring replaced by ':name:' and every other
\* character kept.
TagsRewritten(s) ==
    LET tags == Tags(s)
        Keep(p) == \A t \in tags : (t.i <= p /\ p <= t.j) => (t.c1 <= p /\ p <= t.c2)
    IN  SelectSeq([p \in 1..Len(s) |-> <<p, s[p]>>], LAMBDA x : Keep(x[1]))

\* The content field of the body, with the default of line 106.
RawContent == Get(data.v, "content", JStr(<<>>)).v

\* The relay text after its header line.
RelayedContent ==
    LET nl == CHOOSE p \in 1..Len(args.message) :
                 args.message[p] = "\n" /\ \A q \in 1..(p - 1) : args.message[q] # "\n"
    IN  SubSeq(args.message, nl + 1, Len(args.message))

(***************************************************************************)
(* C19.  In the content of the relay text every substring of the form      *)
(* '<', optional 'a', ':', name, ':', digits, '>' has become ':name:' and  *)
(* every other character is as it was, in place: 'x<a:wave:123...>y'       *)
(* becomes 'x:wave:y', text that only comes close to the form is           *)
(* untouched, and a content with no such substring is relayed unchanged.   *)
(***************************************************************************)
C19_EmojiTagsRewritten ==
    tpc = "ready" =>
        /\ Len(RawContent) <= 100 =>
              LET kept == TagsRewritten(RawContent)
              IN  /\ Len(RelayedContent) = Len(kept)
                  /\ \A n \in 1..Len(kept) : RelayedContent[n] = kept[n][2]
        /\ (\A p \in 1..Len(RawContent) : RawContent[p] # "<") =>
              RelayedContent = RawContent
        /\ RawContent = WaveText =>
              RelayedContent = <<"x", ":", "w", "a", "v", "e", ":", "y">>

\* The text with the animated emoji has been relayed to a destination with
\* ':wave:' in its place.
C19_Witness ==
    /\ Done
    /\ data.t = "dict" /\ RawContent = WaveText
    /\ \E n \in 1..Len(sendLog) :
          /\ sendLog[n].ok
          /\ sendLog[n].content.t = "str"
          /\ SubSeq(sendLog[n].content.v, Len(sendLog[n].content.v) - 7,
                    Len(sendLog[n].content.v))
                = <<"x", ":", "w", "a", "v", "e", ":", "y">>

\* The channel.send calls relay r made to destination c, in the order made.
PairSends(r, c) == SelectSeq(pairLog, LAMBDA e : e.relay = r /\ e.chan = c)
\* The coroutine of relay r has taken its first step.
Started(r) == relays[r].pc \in {"fetch", "send", "done"}
\* The coroutine of relay r has begun a channel.send.
BegunSending(r) == relays[r].pc = "send" \/ \E n \in 1..Len(pairLog) : pairLog[n].relay = r

(***************************************************************************)
(* C20, as claimed.  With two records ingested one after the other and     *)
(* both relays in flight, every send of the earlier record to a            *)
(* destination is made before every send of the later record to it: the    *)
(* sends of the two relays are never interleaved or reordered at one       *)
(* destination.                                                            *)
(* The two coroutines are separate tasks of client.loop and are resumed as *)
(* their awaited calls end: violated.                                      *)
(***************************************************************************)
C20_EarlierRelaySendsFirst ==
    \A n, m \in 1..Len(pairLog) :
        (/\ pairLog[n].chan = pairLog[m].chan
         /\ pairLog[n].relay = 1
         /\ pairLog[m].relay = 2) => n < m

(***************************************************************************)
(* C20, amended.  With two records ingested one after the other and both   *)
(* relays in flight, the coroutine of the earlier record takes its first   *)
(* step before that of the later record, so that an earlier relay with     *)
(* nothing to fetch has begun its first send before the later relay begins *)
(* any; and the sends of each relay to a destination are made in that      *)
(* relay's planned order.  No order holds between the sends of the two     *)
(* relays to one destination.                                              *)
(***************************************************************************)
C20_OrderedWithinEachRelayOnly ==
    /\ Started(2) => Started(1)
    /\ (/\ relays[1].pc # "none"
        /\ RequestAfter(ListOf(relays[1].args.attachments), 0) = 0
        /\ BegunSending(2)) => BegunSending(1) \/ relays[1].pc = "done"
    /\ \A r \in Relays, c \in 1..Len(TARGET_OUTPUT_CHANNEL_IDS) :
          LET sends == PairSends(r, c)
          IN  \A n \in 1..Len(sends) : sends[n].k = n
    /\ \A r \in Relays :
          \A n, m \in 1..Len(pairLog) :
              (n < m /\ pairLog[n].relay = r /\ pairLog[m].relay = r)
                  => pairLog[n].chan <= pairLog[m].chan

\* The earlier relay still awaits the download of its attachment, and the
\* later relay, begun after it, has made both its sends to every destination
\* found and is over.
C20_Witness ==
    /\ relays[1].pc = "fetch"
    /\ relays[2].pc = "done"
    /\ \E c \in 1..Len(TARGET_OUTPUT_CHANNEL_IDS) : TARGET_OUTPUT_CHANNEL_IDS[c] \in channels
    /\ \A c \in 1..Len(TARGET_OUTPUT_CHANNEL_IDS) :
          TARGET_OUTPUT_CHANNEL_IDS[c] \in channels =>
              /\ Len(PairSends(2, c)) = 2
              /\ \A n \in 1..2 : PairSends(2, c)[n].ok

\* The posts on_message made for the message numbered n.
PostsFor(n) == {p \in 1..Len(forwardLog) : forwardLog[p].event = n}
\* The message numbered n came in a monitored channel.
Monitored(n) == events[n].channel_id \in target_channel_ids

(***************************************************************************)
(* C21.  The source monitor forwards a message to the ingestion endpoint   *)
(* only if the id of its channel is in the monitored set; for each message *)
(* of a monitored channel it makes exactly one forward attempt; a failed   *)
(* attempt is not made again and the monitor goes on handling messages.    *)
(* A message of a monitored channel that has no name (a direct-message     *)
(* channel) makes on_message raise at line 163, before the post, and no    *)
(* attempt is made for it: violated.                                       *)
(***************************************************************************)
C21_OneForwardPerMonitoredMessage ==
    /\ \A n \in 1..Len(events) :
          Cardinality(PostsFor(n)) = IF Monitored(n) THEN 1 ELSE 0
    /\ events # <<>> => mpc = "running"

\* What the code does keep of C21: no post for a message of a channel that
\* is not monitored, never more than one post for a message, exactly one
\* when the payload could be built, whatever the earlier posts came to; and
\* the monitor is left running.
C21_AtMostOneForwardAndOnlyMonitored ==
    /\ \A n \in 1..Len(events) :
          /\ ~Monitored(n) => PostsFor(n) = {} /\ events[n].result = "ignored"
          /\ Cardinality(PostsFor(n)) <= 1
          /\ (Monitored(n) /\ events[n].result # "raised") =>
                /\ Cardinality(PostsFor(n)) = 1
                /\ \A p \in PostsFor(n) :
                      events[n].result =
                          IF forwardLog[p].outcome = "200" THEN "forwarded" ELSE "failed"
          /\ events[n].result = "raised" => events[n].channel_id = 8
    /\ events # <<>> => mpc = "running"
    /\ mpc = "running" => target_channel_ids = {7, 8}

\* A post failed, and the next message of a monitored channel was posted
\* and accepted.
C21_LaterMessageForwardedAfterFailure ==
    \E p, q \in 1..Len(forwardLog) :
        /\ p < q
        /\ forwardLog[p].outcome # "200"
        /\ forwardLog[q].outcome = "200"
        /\ forwardLog[q].event = forwardLog[p].event + 1

=============================================================================
